---- MODULE Spec2Model ----
(***************************************************************************)
(* GTFS ingestion service: the refresh pipeline (gtfs/processor.py), the   *)
(* collection loader (gtfs/updater.py), the table decoders                 *)
(* (gtfs/parsers.py) and the background scheduler (core/scheduler.py,      *)
(* core/lifespan.py).                                                      *)
(*                                                                         *)
(* Text read from the archive is a sequence of one-character strings, so   *)
(* that int(), strip(), split(':') are computed rather than looked up.     *)
(* Python's None is the value None below, which no text equals.            *)
(***************************************************************************)
EXTENDS Integers, Sequences, FiniteSets, TLC

\* ---------------------------------------------------------------- bounds

\* Task identifiers available to asyncio.create_task.
MaxTasks == 2
\* Refreshes one behaviour may start.
MaxRuns == 2
\* Failures the environment (store, network) may inject in one behaviour.
MaxFaults == 1
\* Records per bulk_write batch.  The source sets 1000 (updater.py:79); the
\* model scales it down so that a stream of a few records spans several
\* batches and leaves a remainder.
batch_size == 2

\* ------------------------------------------------------- python helpers

None == <<"None">>

Digits == <<"0", "1", "2", "3", "4", "5", "6", "7", "8", "9">>

IsDigitChar(c) == \E i \in 1..10 : Digits[i] = c

DigitVal(c) == (CHOOSE i \in 1..10 : Digits[i] = c) - 1

\* bool(x) of a str-or-None value: None and '' are falsy.
Truthy(s) == s # None /\ s # <<>>

RECURSIVE LStrip(_)
LStrip(s) == IF s # <<>> /\ Head(s) = " " THEN LStrip(Tail(s)) ELSE s

RECURSIVE RStrip(_)
RStrip(s) ==
  IF s # <<>> /\ s[Len(s)] = " " THEN RStrip(SubSeq(s, 1, Len(s) - 1)) ELSE s

\* str.strip()
Strip(s) == RStrip(LStrip(s))

\* str.isdigit(): non-empty and every character a digit.
IsDigitStr(s) == s # <<>> /\ \A i \in 1..Len(s) : IsDigitChar(s[i])

RECURSIVE DigitsVal(_)
DigitsVal(s) ==
  IF s = <<>> THEN 0
  ELSE 10 * DigitsVal(SubSeq(s, 1, Len(s) - 1)) + DigitVal(s[Len(s)])

\* A raised exception, as the value of an expression that may raise.
Raise(kind) == [ok |-> FALSE, exc |-> kind]

Val(v) == [ok |-> TRUE, val |-> v]

\* int(s) for a str or None: surrounding blanks are dropped, one sign is
\* allowed, the rest must be digits.  None raises TypeError, anything else
\* ValueError.
Signed(sign, body) ==
  IF ~IsDigitStr(body) THEN Raise("ValueError")
  ELSE Val(IF sign = "-" THEN 0 - DigitsVal(body) ELSE DigitsVal(body))

Literal(t) ==
  IF t # <<>> /\ Head(t) \in {"-", "+"} THEN Signed(Head(t), Tail(t))
  ELSE Signed("+", t)

PyInt(s) == IF s = None THEN Raise("TypeError") ELSE Literal(Strip(s))

\* float(s), on the texts the model feeds it: integer literals and texts
\* that are no number at all.
PyFloat(s) == PyInt(s)

\* str.split(':')
RECURSIVE SplitColon(_)
SplitColon(s) ==
  IF \A i \in 1..Len(s) : s[i] # ":" THEN <<s>>
  ELSE LET k == CHOOSE i \in 1..Len(s) :
                  s[i] = ":" /\ \A j \in 1..(i - 1) : s[j] # ":"
       IN <<SubSeq(s, 1, k - 1)>> \o SplitColon(SubSeq(s, k + 1, Len(s)))

\* An Optional[int] that is None.
NoInt == [ok |-> FALSE, exc |-> "None"]

\* parsers.py gtfs_time_to_seconds: Val(seconds), or NoInt for a falsy or
\* malformed text (ValueError and AttributeError are swallowed there).
gtfs_time_to_seconds(time_str) ==
  IF ~Truthy(time_str) THEN NoInt
  ELSE LET parts == SplitColon(Strip(time_str))
       IN IF Len(parts) # 3 THEN NoInt
          ELSE LET h == PyInt(parts[1])
                   m == PyInt(parts[2])
                   s == PyInt(parts[3])
               IN IF h.ok /\ m.ok /\ s.ok
                    THEN Val(h.val * 3600 + m.val * 60 + s.val)
                    ELSE NoInt

\* ------------------------------------------------------------ csv tables

\* A member file read through csv.DictReader: hdr is the set of column
\* names of its header line, rows its data lines (a record of texts; a
\* column the line is too short for holds None, DictReader's restval), and
\* ioerr the line whose read raises (a byte that is not UTF-8, csv.Error, a
\* CRC mismatch at the end of the member), 0 when reading never raises.

\* row[col]: KeyError when the header has no such column.
Item(hdr, row, col) == IF col \in hdr THEN Val(row[col]) ELSE Raise("KeyError")

\* row.get(col, dflt)
GetD(hdr, row, col, dflt) == IF col \in hdr THEN row[col] ELSE dflt

\* row.get(col)
Get(hdr, row, col) == GetD(hdr, row, col, None)

\* What decoding one line comes to: a document is yielded, the line is
\* skipped (continue), or an exception leaves the per-line try block.
Yield(doc) == [out |-> "yield", doc |-> doc]

Skip == [out |-> "skip"]

Escape(kind) == [out |-> "raise", exc |-> kind]

Placeholder == <<"?">>

\* parsers.py stream_parse_stops, the body of the loop over the lines.
\* The per-line handler catches ValueError, KeyError and TypeError; the
\* AttributeError of None.strip() (line 93) is none of them and leaves the
\* loop.
StopsRow(hdr, row) ==
  LET stop_id == Get(hdr, row, "stop_id")
      name == GetD(hdr, row, "stop_name", Placeholder)
      lat_str == Get(hdr, row, "stop_lat")
      lon_str == Get(hdr, row, "stop_lon")
      lat == PyFloat(lat_str)
      lon == PyFloat(lon_str)
  IN IF name = None THEN Escape("AttributeError")
     ELSE IF ~(Truthy(stop_id) /\ Truthy(lat_str) /\ Truthy(lon_str)) THEN Skip
     ELSE IF ~lat.ok \/ ~lon.ok THEN Skip
     ELSE IF ~(-90 <= lat.val /\ lat.val <= 90
               /\ -180 <= lon.val /\ lon.val <= 180) THEN Skip
     ELSE Yield([_id |-> stop_id, stop_id |-> stop_id,
                 stop_name |-> Strip(name),
                 stop_lat |-> lat.val, stop_lon |-> lon.val])

\* parsers.py stream_parse_stop_times, the body of the loop over the lines.
StopTimesRow(hdr, row) ==
  LET trip_id == Get(hdr, row, "trip_id")
      stop_id == Get(hdr, row, "stop_id")
      seq_str == Get(hdr, row, "stop_sequence")
      dep_str == Get(hdr, row, "departure_time")
      arr_str == Get(hdr, row, "arrival_time")
      sdt == GetD(hdr, row, "shape_dist_traveled", <<>>)
      seq == PyInt(seq_str)
      dep == gtfs_time_to_seconds(dep_str)
      arr == gtfs_time_to_seconds(arr_str)
  IN IF ~(Truthy(trip_id) /\ Truthy(stop_id) /\ Truthy(seq_str)
          /\ Truthy(dep_str) /\ Truthy(arr_str)) THEN Skip
     ELSE IF ~seq.ok THEN Skip
     ELSE IF ~dep.ok \/ ~arr.ok THEN Skip
     ELSE IF Truthy(sdt) /\ ~PyFloat(sdt).ok THEN Skip
     ELSE Yield([trip_id |-> trip_id, arrival_time |-> arr.val,
                 departure_time |-> dep.val, stop_id |-> stop_id,
                 stop_sequence |-> seq.val])

\* ----------------------------------------------------------------- dates

IsLeap(y) == y % 4 = 0 /\ (y % 100 # 0 \/ y % 400 = 0)

DaysInMonth(y, m) ==
  IF m = 2 THEN (IF IsLeap(y) THEN 29 ELSE 28)
  ELSE IF m \in {4, 6, 9, 11} THEN 30 ELSE 31

RECURSIVE DaysBeforeMonth(_, _)
DaysBeforeMonth(y, m) ==
  IF m = 1 THEN 0 ELSE DaysBeforeMonth(y, m - 1) + DaysInMonth(y, m - 1)

\* datetime.date(y, m, d).toordinal(); ValueError for a date that does not
\* exist.
PyDate(y, m, d) ==
  IF y < 1 \/ y > 9999 \/ m < 1 \/ m > 12 THEN Raise("ValueError")
  ELSE IF d < 1 \/ d > DaysInMonth(y, m) THEN Raise("ValueError")
  ELSE Val((y - 1) * 365 + ((y - 1) \div 4) - ((y - 1) \div 100)
           + ((y - 1) \div 400) + DaysBeforeMonth(y, m) + d)

\* parsers.py parse_gtfs_date: Val(day ordinal) or NoInt.
parse_gtfs_date(date_str) ==
  IF ~Truthy(date_str) THEN NoInt
  ELSE LET t == Strip(date_str)
       IN IF Len(t) # 8 THEN NoInt
          ELSE LET y == PyInt(SubSeq(t, 1, 4))
                   m == PyInt(SubSeq(t, 5, 6))
                   d == PyInt(SubSeq(t, 7, 8))
               IN IF ~(y.ok /\ m.ok /\ d.ok) THEN NoInt
                  ELSE LET r == PyDate(y.val, m.val, d.val)
                       IN IF r.ok THEN r ELSE NoInt

\* A datetime is a day ordinal and a second of that day (fractions of a
\* second dropped).  datetime.combine(day, time.min) and
\* datetime.combine(day, time.max).
DayStart(day) == [day |-> day, sec |-> 0]

DayEnd(day) == [day |-> day, sec |-> 86399]

Weekdays ==
  <<"monday", "tuesday", "wednesday", "thursday", "friday", "saturday",
    "sunday">>

\* parsers.py stream_parse_calendar, the body of the loop over the lines.
CalendarRow(hdr, row) ==
  LET sid == Item(hdr, row, "service_id")
      start == parse_gtfs_date(Get(hdr, row, "start_date"))
      end == parse_gtfs_date(Get(hdr, row, "end_date"))
      flag(i) == IF Weekdays[i] \in hdr THEN PyInt(row[Weekdays[i]])
                 ELSE Raise("KeyError")
  IN IF ~sid.ok THEN Skip
     ELSE IF ~Truthy(sid.val) \/ ~start.ok \/ ~end.ok THEN Skip
     ELSE IF \E i \in 1..7 : ~flag(i).ok THEN Skip
     ELSE Yield([_id |-> sid.val, service_id |-> sid.val,
                 monday |-> flag(1).val # 0, tuesday |-> flag(2).val # 0,
                 wednesday |-> flag(3).val # 0, thursday |-> flag(4).val # 0,
                 friday |-> flag(5).val # 0, saturday |-> flag(6).val # 0,
                 sunday |-> flag(7).val # 0,
                 start_date |-> DayStart(start.val),
                 end_date |-> DayEnd(end.val)])

\* parsers.py stream_parse_calendar_dates, the body of the loop.
CalendarDatesRow(hdr, row) ==
  LET sid == Item(hdr, row, "service_id")
      day == parse_gtfs_date(Get(hdr, row, "date"))
      type_str == Get(hdr, row, "exception_type")
  IN IF ~sid.ok THEN Skip
     ELSE IF ~Truthy(sid.val) \/ ~day.ok
             \/ type_str \notin {<<"1">>, <<"2">>} THEN Skip
     ELSE Yield([service_id |-> sid.val, date |-> DayStart(day.val),
                 exception_type |-> PyInt(type_str).val])

\* ------------------------------------------------------------ generators

RowWise == {"stops", "stop_times", "calendar", "calendar_dates"}

DecodeRow(kind, hdr, row) ==
  CASE kind = "stops" -> StopsRow(hdr, row)
    [] kind = "stop_times" -> StopTimesRow(hdr, row)
    [] kind = "calendar" -> CalendarRow(hdr, row)
    [] kind = "calendar_dates" -> CalendarDatesRow(hdr, row)

\* What a consumer gets out of an async generator: the documents it yields,
\* in order, and whether it then raises instead of ending.
Stream(recs, raises) == [recs |-> recs, raises |-> raises]

\* The line-by-line decoders from line i on.  Reading line i raises when
\* tbl.ioerr = i; the outer handlers log and re-raise.
RECURSIVE Generate(_, _, _)

\* The stream that yields what line r came to and goes on as rest.
Then(r, rest) ==
  IF r.out = "skip" THEN rest
  ELSE Stream(<<r.doc>> \o rest.recs, rest.raises)

\* The stream from line i on, line i having come to r.
From(kind, tbl, i, r) ==
  IF r.out = "raise" THEN Stream(<<>>, TRUE)
  ELSE Then(r, Generate(kind, tbl, i + 1))

Generate(kind, tbl, i) ==
  IF tbl.ioerr = i THEN Stream(<<>>, TRUE)
  ELSE IF i > Len(tbl.rows) THEN Stream(<<>>, FALSE)
  ELSE From(kind, tbl, i, DecodeRow(kind, tbl.hdr, tbl.rows[i]))

\* ---------------------------------------------------------------- shapes

\* The characters the model's texts are written in, in code point order.
Alphabet ==
  <<" ", "+", "-", ".", "0", "1", "2", "3", "4", "5", "6", "7", "8", "9",
    ":", "?", "a", "b", "c", "d", "x", "z">>

Ord(c) == CHOOSE i \in 1..Len(Alphabet) : Alphabet[i] = c

\* a < b for two str values.
RECURSIVE StrLess(_, _)
StrLess(a, b) ==
  IF b = <<>> THEN FALSE
  ELSE IF a = <<>> THEN TRUE
  ELSE IF Head(a) # Head(b) THEN Ord(Head(a)) < Ord(Head(b))
  ELSE StrLess(Tail(a), Tail(b))

\* sorted(list(S)) for a set of str.
RECURSIVE SortedStrs(_)
SortedStrs(S) ==
  IF S = {} THEN <<>>
  ELSE LET m == CHOOSE x \in S : \A y \in S \ {x} : StrLess(x, y)
       IN <<m>> \o SortedStrs(S \ {m})

\* One line of shapes.txt (parsers.py lines 49-57): a point, or a skip.
ShapePoint(hdr, row) ==
  LET shape_id == Item(hdr, row, "shape_id")
      lat == IF "shape_pt_lat" \in hdr THEN PyFloat(row.shape_pt_lat)
             ELSE Raise("KeyError")
      lon == IF "shape_pt_lon" \in hdr THEN PyFloat(row.shape_pt_lon)
             ELSE Raise("KeyError")
      seq == IF "shape_pt_sequence" \in hdr THEN PyInt(row.shape_pt_sequence)
             ELSE Raise("KeyError")
  IN IF ~shape_id.ok \/ ~lat.ok \/ ~lon.ok \/ ~seq.ok THEN Skip
     ELSE Yield([shape_id |-> shape_id.val, seq |-> seq.val,
                 pt |-> <<lat.val, lon.val>>])

\* temp_shapes[shape_id].append(...) on a dict kept in first-seen order.
AddPoint(groups, p) ==
  IF \E g \in 1..Len(groups) : groups[g].shape_id = p.shape_id
    THEN [g \in 1..Len(groups) |->
            IF groups[g].shape_id = p.shape_id
              THEN [groups[g] EXCEPT !.points = Append(@, p)]
              ELSE groups[g]]
    ELSE Append(groups, [shape_id |-> p.shape_id, points |-> <<p>>])

RECURSIVE GroupShapes(_, _, _)
GroupShapes(tbl, i, groups) ==
  IF i > Len(tbl.rows) THEN groups
  ELSE LET r == ShapePoint(tbl.hdr, tbl.rows[i])
       IN GroupShapes(tbl, i + 1,
                      IF r.out = "yield" THEN AddPoint(groups, r.doc)
                      ELSE groups)

\* list.sort(key=lambda item: item[0]): stable, ascending in seq.
RECURSIVE InsertBySeq(_, _)
InsertBySeq(sorted, p) ==
  IF sorted = <<>> THEN <<p>>
  ELSE IF sorted[Len(sorted)].seq <= p.seq THEN Append(sorted, p)
  ELSE Append(InsertBySeq(SubSeq(sorted, 1, Len(sorted) - 1), p),
              sorted[Len(sorted)])

RECURSIVE SortBySeq(_)
SortBySeq(points) ==
  IF points = <<>> THEN <<>>
  ELSE InsertBySeq(SortBySeq(SubSeq(points, 1, Len(points) - 1)),
                   points[Len(points)])

ShapeDoc(g) ==
  LET pts == SortBySeq(g.points)
  IN [_id |-> g.shape_id, shape_id |-> g.shape_id,
      coordinates |-> [k \in 1..Len(pts) |-> pts[k].pt]]

\* parsers.py stream_parse_shapes: the whole member is read before the
\* first document is yielded, so a read error leaves nothing yielded.
stream_parse_shapes(tbl) ==
  IF tbl.ioerr # 0 THEN Stream(<<>>, TRUE)
  ELSE LET groups == GroupShapes(tbl, 1, <<>>)
       IN Stream([g \in 1..Len(groups) |-> ShapeDoc(groups[g])], FALSE)

\* ------------------------------------------------------ routes and trips

\* routes[route_id] = {...} on a dict kept in first-seen order.
PutRoute(routes, doc) ==
  IF \E k \in 1..Len(routes) : routes[k].route_id = doc.route_id
    THEN [k \in 1..Len(routes) |->
            IF routes[k].route_id = doc.route_id THEN doc ELSE routes[k]]
    ELSE Append(routes, doc)

\* Pass 1 of stream_parse_trips_and_routes (lines 150-169); shape_ids is
\* the set the trips are linked into.
RECURSIVE RoutesPass(_, _, _)
RoutesPass(tbl, i, routes) ==
  IF i > Len(tbl.rows) THEN routes
  ELSE LET hdr == tbl.hdr
           row == tbl.rows[i]
           route_id == Item(hdr, row, "route_id")
       IN RoutesPass(tbl, i + 1,
            IF ~route_id.ok \/ ~Truthy(route_id.val) THEN routes
            ELSE PutRoute(routes,
                   [_id |-> route_id.val, route_id |-> route_id.val,
                    route_short_name |->
                      IF Truthy(Get(hdr, row, "route_short_name"))
                        THEN Get(hdr, row, "route_short_name") ELSE None,
                    shape_ids |-> {}]))

\* One line of trips.txt (lines 184-215): the trip document, or a skip.
TripRow(hdr, row) ==
  LET trip_id == Item(hdr, row, "trip_id")
      route_id == Item(hdr, row, "route_id")
      service_id == Item(hdr, row, "service_id")
      shape_id == Get(hdr, row, "shape_id")
  IN IF ~trip_id.ok \/ ~route_id.ok \/ ~service_id.ok THEN Skip
     ELSE IF ~(Truthy(trip_id.val) /\ Truthy(route_id.val)
               /\ Truthy(service_id.val)) THEN Skip
     ELSE Yield([_id |-> trip_id.val, trip_id |-> trip_id.val,
                 route_id |-> route_id.val, service_id |-> service_id.val,
                 shape_id |-> IF Truthy(shape_id) THEN shape_id ELSE None])

\* A link that adds the trip's shape to every route.
LinkShapeAnyRoute(routes, trip) ==
  [k \in 1..Len(routes) |->
     IF trip.shape_id # None
       THEN [routes[k] EXCEPT !.shape_ids = @ \cup {trip.shape_id}]
       ELSE routes[k]]

\* routes[route_id]['shape_ids'].add(shape_id) when the route is known and
\* the trip has a shape.
LinkShape(routes, trip) ==
  [k \in 1..Len(routes) |->
     IF routes[k].route_id = trip.route_id /\ trip.shape_id # None
       THEN [routes[k] EXCEPT !.shape_ids = @ \cup {trip.shape_id}]
       ELSE routes[k]]

\* Pass 2 (lines 178-222).  A read error empties trips_list and keeps the
\* routes as linked so far.
RECURSIVE TripsPass(_, _, _, _)
TripsPass(tbl, i, routes, trips_list) ==
  IF tbl.ioerr = i THEN [routes |-> routes, trips |-> <<>>]
  ELSE IF i > Len(tbl.rows) THEN [routes |-> routes, trips |-> trips_list]
  ELSE LET r == TripRow(tbl.hdr, tbl.rows[i])
       IN IF r.out = "skip" THEN TripsPass(tbl, i + 1, routes, trips_list)
          ELSE TripsPass(tbl, i + 1, LinkShape(routes, r.doc),
                         Append(trips_list, r.doc))

\* parsers.py lines 224-228: 'shape_ids': sorted(list(...)) as the routes
\* are handed out.
Listed(linked) ==
  [routes |-> [k \in 1..Len(linked.routes) |->
                 [linked.routes[k] EXCEPT !.shape_ids = SortedStrs(@)]],
   trips |-> linked.trips]

\* A linker that raises when the header of trips.txt lacks trip_id,
\* route_id or service_id.
TripsHeaderRaises(routes_tbl, trips_tbl) ==
  IF routes_tbl.ioerr # 0 THEN Raise("Exception")
  ELSE IF ~({"trip_id", "route_id", "service_id"} \subseteq trips_tbl.hdr)
    THEN Raise("KeyError")
  ELSE Val(Listed(TripsPass(trips_tbl, 1, RoutesPass(routes_tbl, 1, <<>>),
                            <<>>)))

\* parsers.py stream_parse_trips_and_routes: raises when routes.txt cannot
\* be read, otherwise the documents of its two generators.
stream_parse_trips_and_routes(routes_tbl, trips_tbl) ==
  IF routes_tbl.ioerr # 0 THEN Raise("Exception")
  ELSE Val(Listed(TripsPass(trips_tbl, 1, RoutesPass(routes_tbl, 1, <<>>),
                            <<>>)))

\* ----------------------------------------------------------- the archive

\* core/config.py: member files and collections.
ROUTES_FILE == "routes.txt"

TRIPS_FILE == "trips.txt"

SHAPES_FILE == "shapes.txt"

STOPS_FILE == "stops.txt"

STOP_TIMES_FILE == "stop_times.txt"

CALENDAR_FILE == "calendar.txt"

CALENDAR_DATES_FILE == "calendar_dates.txt"

Files ==
  {ROUTES_FILE, TRIPS_FILE, SHAPES_FILE, STOPS_FILE, STOP_TIMES_FILE,
   CALENDAR_FILE, CALENDAR_DATES_FILE}

Collections ==
  {"routes", "shapes", "stops", "trips", "stop_times", "calendar",
   "calendar_dates"}

\* zip_ref.open(filename) raises KeyError for a member the archive lacks;
\* every decoder logs it and re-raises, which is a read error on line 1.
NoMember == [hdr |-> {}, rows |-> <<>>, ioerr |-> 1]

Member(a, f) == IF f \in a.members THEN a.tables[f] ELSE NoMember

\* A member check that finds nothing missing.
NoneMissing(a) == {}

\* processor.py lines 42-45: the required members the archive lacks.
MissingMembers(a) == Files \ a.members

\* The loads with stops and shapes the other way round.
ShapesBeforeStops ==
  <<"calendar", "calendar_dates", "shapes", "stops", "trips", "routes",
    "stop_times">>

\* processor.py lines 51-70: the collections in the order they are loaded.
LoadOrder ==
  <<"calendar", "calendar_dates", "stops", "shapes", "trips", "routes",
    "stop_times">>

\* The generator update_gtfs_data_in_db hands to the loader for collection
\* c.  linked is what stream_parse_trips_and_routes returned (line 64).
StreamFor(c, a, linked) ==
  CASE c = "calendar" -> Generate("calendar", Member(a, CALENDAR_FILE), 1)
    [] c = "calendar_dates" ->
         Generate("calendar_dates", Member(a, CALENDAR_DATES_FILE), 1)
    [] c = "stops" -> Generate("stops", Member(a, STOPS_FILE), 1)
    [] c = "shapes" -> stream_parse_shapes(Member(a, SHAPES_FILE))
    [] c = "trips" -> Stream(linked.trips, FALSE)
    [] c = "routes" -> Stream(linked.routes, FALSE)
    [] c = "stop_times" ->
         Generate("stop_times", Member(a, STOP_TIMES_FILE), 1)

\* ------------------------------------------------------------- the store

\* updater.py line 88: the document carries a usable _id.
HasId(doc) == "_id" \in DOMAIN doc /\ doc._id # None

\* updater.py lines 88-93: ReplaceOne({"_id": ...}, doc, upsert=True) for a
\* document with an _id, InsertOne of the document without its _id key
\* otherwise.
Operation(doc) ==
  IF HasId(doc) THEN [op |-> "replace", doc |-> doc]
  ELSE [op |-> "insert",
        doc |-> [f \in DOMAIN doc \ {"_id"} |-> doc[f]]]

\* One write operation applied to a collection (its documents in natural
\* order): an upsert replaces the document with that _id in place or
\* appends; an insert appends, the store assigning the _id.
ApplyOp(docs, o) ==
  IF o.op = "replace" /\ \E k \in 1..Len(docs) : HasId(docs[k])
                                               /\ docs[k]._id = o.doc._id
    THEN [k \in 1..Len(docs) |->
            IF HasId(docs[k]) /\ docs[k]._id = o.doc._id THEN o.doc
            ELSE docs[k]]
    ELSE Append(docs, o.doc)

\* The operations at the positions in I applied in list order (the driver
\* sends the operations of one kind as one command, in list order).
RECURSIVE ApplyAt(_, _, _, _)
ApplyAt(docs, ops, I, k) ==
  IF k > Len(ops) THEN docs
  ELSE ApplyAt(IF k \in I THEN ApplyOp(docs, ops[k]) ELSE docs, ops, I, k + 1)

\* collection.bulk_write(operations, ordered=False), acknowledged.
BulkWrite(docs, ops) == ApplyAt(docs, ops, 1..Len(ops), 1)

\* A delete that leaves the documents where they are.
KeepAll(docs) == docs

\* collection.delete_many({}), acknowledged.
DeleteMany(docs) == <<>>

\* updater.py lines 20-56: collection_indexes.get(name) is non-empty.
HasIndexes(c) == c \notin {"routes", "shapes"}

\* ----------------------------------------------------------------- state

VARIABLES
  archive,    \* what GTFS_URL serves: members present and their tables
  store,      \* the data collections: name -> documents in natural order
  meta,       \* the metadata record "gtfs_update_status" (0: field absent)
  clock,      \* datetime.now(), advanced at every refresh start
  faults,     \* failures injected so far
  lifespan,   \* core/lifespan.py: "init", "running", "stopped", "failed"
  tasks,      \* background_update_task per task id: where it stands
  app_state,  \* core/state.py
  rf,         \* update_gtfs_data_in_db, the activation of each task
  ld,         \* update_mongo_collection, the activation of each task
  touched,    \* history: collections deleted from or written to this run
  failed,     \* history: kinds of operations that failed this run
  prev,       \* history: store and metadata when the last refresh returned
  observed,   \* what the last concurrent read returned
  parsed,     \* a decoder run on its own: the table and what came out
  query,      \* the last request an API handler served, and its response
  sched       \* the scheduler's timing: seconds slept, timestamps read

vars ==
  <<archive, store, meta, clock, faults, lifespan, tasks, app_state, rf, ld,
    touched, failed, prev, observed, parsed, query,
    sched>>

\* What the refresh, the loader and the scheduler never write.
aside == <<observed, parsed, query, sched>>

Tasks == 1..MaxTasks

\* An update_mongo_collection activation.  old, submitted, acked, nfailed
\* and dropped are history: the collection at entry, the documents handed
\* to bulk_write so far, those of the acknowledged bulk writes, the bulk
\* writes that failed, and the operations that were pending when the
\* stream raised.
IdleLoad ==
  [pc |-> "idle", coll |-> "", clear |-> TRUE, recs |-> <<>>,
   raises |-> FALSE, pos |-> 0, operations |-> <<>>, old |-> <<>>,
   submitted |-> <<>>, acked |-> <<>>, nfailed |-> 0, dropped |-> <<>>,
   indexed |-> "no"]

\* An activation that goes straight to the stream.
NewLoadNoClear(c, stream, clear, docs) ==
  [IdleLoad EXCEPT !.pc = "fetch", !.coll = c, !.clear = clear,
                   !.recs = stream.recs, !.raises = stream.raises,
                   !.old = docs]

\* updater.py lines 58-67: the activation at its first await.
NewLoad(c, stream, clear, docs) ==
  [IdleLoad EXCEPT !.pc = IF clear THEN "clear" ELSE "fetch",
                   !.coll = c, !.clear = clear, !.recs = stream.recs,
                   !.raises = stream.raises, !.old = docs]

\* A failed bulk_write that ends the loader.
OnBulkErrorRaise(f, nxt) ==
  [f EXCEPT !.pc = "raised", !.operations = <<>>, !.nfailed = @ + 1,
            !.submitted = @ \o [k \in 1..Len(f.operations) |->
                                  f.operations[k].doc]]

\* updater.py lines 102-108 and 116-120: what the handlers of a failed
\* bulk_write leave behind.  The batch is forgotten and the loader goes on.
OnBulkError(f, nxt) ==
  [f EXCEPT !.pc = nxt, !.operations = <<>>, !.nfailed = @ + 1,
            !.submitted = @ \o [k \in 1..Len(f.operations) |->
                                  f.operations[k].doc]]

\* updater.py lines 97-101 and 113-115: after an acknowledged bulk_write.
OnBulkOk(f, nxt) ==
  [f EXCEPT !.pc = nxt, !.operations = <<>>,
            !.submitted = @ \o [k \in 1..Len(f.operations) |->
                                  f.operations[k].doc],
            !.acked = @ \o [k \in 1..Len(f.operations) |->
                              f.operations[k].doc]]

Fault == faults < MaxFaults

\* A loader that logs a failed delete_many and goes on to the stream.
LdClearGoesOn(t) ==
  LET f == ld[t]
  IN /\ f.pc = "clear"
     /\ touched' = touched \cup {f.coll}
     /\ \/ /\ store' = [store EXCEPT ![f.coll] = DeleteMany(@)]
           /\ ld' = [ld EXCEPT ![t].pc = "fetch"]
           /\ UNCHANGED <<faults, failed>>
        \/ /\ Fault
           /\ faults' = faults + 1
           /\ failed' = failed \cup {"delete"}
           /\ \E gone \in BOOLEAN :
                store' = [store EXCEPT
                            ![f.coll] = IF gone THEN DeleteMany(@) ELSE @]
           /\ ld' = [ld EXCEPT ![t].pc = "fetch"]
     /\ UNCHANGED <<archive, meta, clock, lifespan, tasks, app_state, rf,
                    prev, aside>>

\* updater.py lines 69-76: delete_many, which may raise; the loader logs
\* and re-raises.  A delete that raised may or may not have been applied.
LdClear(t) ==
  LET f == ld[t]
  IN /\ f.pc = "clear"
     /\ touched' = touched \cup {f.coll}
     /\ \/ /\ store' = [store EXCEPT ![f.coll] = DeleteMany(@)]
           /\ ld' = [ld EXCEPT ![t].pc = "fetch"]
           /\ UNCHANGED <<faults, failed>>
        \/ /\ Fault
           /\ faults' = faults + 1
           /\ failed' = failed \cup {"delete"}
           /\ \E gone \in BOOLEAN :
                store' = [store EXCEPT
                            ![f.coll] = IF gone THEN DeleteMany(@) ELSE @]
           /\ ld' = [ld EXCEPT ![t].pc = "raised"]
     /\ UNCHANGED <<archive, meta, clock, lifespan, tasks, app_state, rf,
                    prev, aside>>

\* updater.py lines 84-95 and 125-128: `async for` takes the next document
\* and queues its operation; a full batch goes to bulk_write.  When the
\* stream ends the remainder is flushed; when it raises, the handler at
\* line 125 logs and falls through to the index step.
LdFetch(t) ==
  LET f == ld[t]
  IN /\ f.pc = "fetch"
     /\ IF f.pos < Len(f.recs)
          THEN LET ops == Append(f.operations, Operation(f.recs[f.pos + 1]))
               IN ld' = [ld EXCEPT
                           ![t].pos = @ + 1, ![t].operations = ops,
                           ![t].pc = IF Len(ops) >= batch_size THEN "write"
                                     ELSE "fetch"]
          ELSE IF f.raises
            THEN ld' = [ld EXCEPT
                          ![t].pc = "index",
                          ![t].dropped = [k \in 1..Len(f.operations) |->
                                            f.operations[k].doc],
                          ![t].operations = <<>>]
            ELSE ld' = [ld EXCEPT
                          ![t].pc = IF f.operations # <<>> THEN "flush"
                                    ELSE "index"]
     /\ UNCHANGED <<archive, store, meta, clock, faults, lifespan, tasks,
                    app_state, rf, touched, failed, prev, aside>>

\* A bulk_write of the queued operations, after which the loader is at
\* nxt.  When it raises (BulkWriteError or any other exception) any of the
\* operations may have been applied.
Bulk(t, nxt) ==
  LET f == ld[t]
  IN /\ touched' = touched \cup {f.coll}
     /\ \/ /\ store' = [store EXCEPT ![f.coll] = BulkWrite(@, f.operations)]
           /\ ld' = [ld EXCEPT ![t] = OnBulkOk(f, nxt)]
           /\ UNCHANGED <<faults, failed>>
        \/ /\ Fault
           /\ faults' = faults + 1
           /\ failed' = failed \cup {"bulk"}
           /\ \E I \in SUBSET (1..Len(f.operations)) :
                store' = [store EXCEPT
                            ![f.coll] = ApplyAt(@, f.operations, I, 1)]
           /\ ld' = [ld EXCEPT ![t] = OnBulkError(f, nxt)]
     /\ UNCHANGED <<archive, meta, clock, lifespan, tasks, app_state, rf,
                    prev, aside>>

\* updater.py lines 95-108: a full batch inside the loop.
LdWrite(t) == ld[t].pc = "write" /\ Bulk(t, "fetch")

\* updater.py lines 110-120: the remainder after the loop.
LdFlush(t) == ld[t].pc = "flush" /\ Bulk(t, "index")

\* updater.py lines 130-145: create_indexes when the collection has any;
\* a failure is logged as a warning.  Then the loader returns.
LdIndex(t) ==
  LET f == ld[t]
  IN /\ f.pc = "index"
     /\ IF HasIndexes(f.coll)
          THEN \/ /\ ld' = [ld EXCEPT ![t].pc = "ret", ![t].indexed = "ok"]
                  /\ UNCHANGED <<faults, failed>>
               \/ /\ Fault
                  /\ faults' = faults + 1
                  /\ failed' = failed \cup {"index"}
                  /\ ld' = [ld EXCEPT ![t].pc = "ret",
                                      ![t].indexed = "failed"]
          ELSE /\ ld' = [ld EXCEPT ![t].pc = "ret", ![t].indexed = "none"]
               /\ UNCHANGED <<faults, failed>>
     /\ UNCHANGED <<archive, store, meta, clock, lifespan, tasks, app_state,
                    rf, touched, prev, aside>>

\* ----------------------------------------------------------- the refresh

\* An update_gtfs_data_in_db activation.  order, ok0 and attempted are
\* history: the loads begun and ended and the metadata write, in order;
\* last_successful_update_utc at the call; whether the error record was
\* attempted.
IdleRefresh ==
  [pc |-> "idle", step |-> 0, zip |-> FALSE, success |-> FALSE, exc |-> "",
   linked |-> [routes |-> <<>>, trips |-> <<>>], order |-> <<>>, ok0 |-> 0,
   attempted |-> FALSE]

\* processor.py line 84: `except Exception` takes every ordinary exception.
Handles(exc) == TRUE

\* The refresh raises exc inside its try block.
Throw(t, exc) == [rf EXCEPT ![t].pc = "except", ![t].exc = exc]

\* processor.py lines 52-70: the call of update_mongo_collection for step
\* k, up to the loader's first await.
Begin(t, k, frame) ==
  LET c == LoadOrder[k]
  IN /\ rf' = [rf EXCEPT
                 ![t] = [frame EXCEPT !.pc = "load", !.step = k,
                                      !.order = Append(@, <<"begin", c>>)]]
     /\ ld' = [ld EXCEPT
                 ![t] = NewLoad(c, StreamFor(c, archive, frame.linked), TRUE,
                                store[c])]

\* processor.py lines 39-52: the download returns, the member list is
\* checked, and the first load is called.  download_gtfs_zip returns None
\* on every failure.
RfDownload(t) ==
  /\ rf[t].pc = "download"
  /\ \/ /\ Fault
        /\ faults' = faults + 1
        /\ failed' = failed \cup {"download"}
        /\ rf' = Throw(t, "download")
        /\ UNCHANGED ld
     \/ /\ UNCHANGED <<faults, failed>>
        /\ IF MissingMembers(archive) # {}
             THEN /\ rf' = [Throw(t, "missing") EXCEPT ![t].zip = TRUE]
                  /\ UNCHANGED ld
             ELSE Begin(t, 1, [rf[t] EXCEPT !.zip = TRUE])
  /\ UNCHANGED <<archive, store, meta, clock, lifespan, tasks, app_state,
                 touched, prev, aside>>

\* processor.py lines 52-70: a load returned (or raised, when its delete
\* failed) and the next one is called.  Before the trips load the routes
\* and trips members are parsed (line 64), which raises when routes.txt
\* cannot be read.
Ended(f) == [f EXCEPT !.order = Append(@, <<"end", LoadOrder[f.step]>>)]

\* The frame as the load of step k is called: before the trips load the
\* linked routes and trips are kept.
Linked(f, k, linked) ==
  IF LoadOrder[k] = "trips" THEN [f EXCEPT !.linked = linked.val] ELSE f

Proceed(t, f, linked) ==
  IF ld[t].pc = "raised"
    THEN rf' = Throw(t, "delete") /\ ld' = [ld EXCEPT ![t] = IdleLoad]
    ELSE IF f.step = Len(LoadOrder)
      THEN /\ rf' = [rf EXCEPT ![t] = [Ended(f) EXCEPT !.pc = "meta"]]
           /\ ld' = [ld EXCEPT ![t] = IdleLoad]
      ELSE IF LoadOrder[f.step + 1] = "trips" /\ ~linked.ok
        THEN /\ rf' = [rf EXCEPT ![t] = [Ended(f) EXCEPT !.pc = "except",
                                                         !.exc = "parse"]]
             /\ ld' = [ld EXCEPT ![t] = IdleLoad]
        ELSE Begin(t, f.step + 1, Linked(Ended(f), f.step + 1, linked))

RfNext(t) ==
  /\ rf[t].pc = "load"
  /\ ld[t].pc \in {"ret", "raised"}
  /\ Proceed(t, rf[t],
             stream_parse_trips_and_routes(Member(archive, ROUTES_FILE),
                                           Member(archive, TRIPS_FILE)))
  /\ UNCHANGED <<archive, store, meta, clock, faults, lifespan, tasks,
                 app_state, touched, failed, prev, aside>>

\* processor.py lines 74-82: the upsert of last_successful_update_utc,
\* then success = True; the finally block closes the archive.
RfMeta(t) ==
  /\ rf[t].pc = "meta"
  /\ \/ /\ meta' = [meta EXCEPT !.ok = clock]
        /\ rf' = [rf EXCEPT ![t].pc = "done", ![t].success = TRUE,
                            ![t].zip = FALSE,
                            ![t].order = Append(@, <<"meta", "metadata">>)]
        /\ UNCHANGED <<faults, failed>>
     \/ /\ Fault
        /\ faults' = faults + 1
        /\ failed' = failed \cup {"meta"}
        /\ rf' = Throw(t, "meta")
        /\ UNCHANGED meta
  /\ UNCHANGED <<archive, store, clock, lifespan, tasks, app_state, ld,
                 touched, prev, aside>>

\* processor.py lines 84-101: the handler sets success = False and, inside
\* a try block of its own, tests `if db:` and upserts last_error_utc and
\* last_error_message; whatever that block raises is logged.  The finally
\* block closes the archive and False is returned.
\*
\* bool(db) depends on the driver the process runs with, which the
\* repository does not pin: a Database of pymongo 4 (motor 3) raises
\* NotImplementedError on truth value testing, that of pymongo 3 (motor 2)
\* is true.  Either may happen; under the first update_one is never called.
RfExcept(t) ==
  /\ rf[t].pc = "except"
  /\ IF Handles(rf[t].exc)
       THEN \/ /\ rf' = [rf EXCEPT ![t].pc = "done", ![t].success = FALSE,
                                   ![t].zip = FALSE, ![t].attempted = TRUE]
               /\ meta' = [meta EXCEPT !.err = clock, !.msg = rf[t].exc]
               /\ UNCHANGED faults
            \/ /\ Fault
               /\ faults' = faults + 1
               /\ rf' = [rf EXCEPT ![t].pc = "done", ![t].success = FALSE,
                                   ![t].zip = FALSE, ![t].attempted = TRUE]
               /\ UNCHANGED meta
            \/ /\ rf' = [rf EXCEPT ![t].pc = "done", ![t].success = FALSE,
                                   ![t].zip = FALSE]
               /\ UNCHANGED <<meta, faults>>
       ELSE /\ rf' = [rf EXCEPT ![t].pc = "raised", ![t].zip = FALSE]
            /\ UNCHANGED <<meta, faults>>
  /\ UNCHANGED <<archive, store, clock, lifespan, tasks, app_state, ld,
                 touched, failed, prev, aside>>

\* --------------------------------------------- the scheduler and lifespan

\* A startup that may run again in a process that is already up.
StartupAgain == lifespan \in {"init", "running"}

\* lifespan.py lines 17-29: the code before `yield` runs when the
\* application starts.
StartupEnabled == lifespan = "init"

\* lifespan.py lines 19-29: connect_to_mongo (which raises when the store
\* cannot be reached, and the application does not start), then
\* create_task(background_update_task()), kept in app_state.
Startup ==
  /\ StartupEnabled
  /\ \/ /\ Fault
        /\ faults' = faults + 1
        /\ lifespan' = "failed"
        /\ UNCHANGED <<tasks, app_state>>
     \/ /\ \E t \in Tasks :
             /\ tasks[t] = "none"
             /\ \A u \in Tasks : u < t => tasks[u] # "none"
             /\ tasks' = [tasks EXCEPT ![t] = "start"]
             /\ app_state' = [app_state EXCEPT !.update_task = t]
        /\ lifespan' = "running"
        /\ UNCHANGED faults
  /\ UNCHANGED <<archive, store, meta, clock, rf, ld, touched, failed, prev,
                 aside>>

\* scheduler.py lines 22-26: the task starts and sleeps 5 seconds.
TaskBegin(t) ==
  /\ tasks[t] = "start"
  /\ tasks' = [tasks EXCEPT ![t] = "sleep5"]
  /\ app_state' = [app_state EXCEPT !.update_task_running = TRUE]
  /\ UNCHANGED <<archive, store, meta, clock, faults, lifespan, rf, ld,
                 touched, failed, prev, aside>>

\* scheduler.py lines 26-37: the sleep ends, the loop is entered and the
\* metadata record is asked for.
TaskWake(t) ==
  /\ tasks[t] = "sleep5"
  /\ tasks' = [tasks EXCEPT ![t] = "loop"]
  /\ UNCHANGED <<archive, store, meta, clock, faults, lifespan, app_state,
                 rf, ld, touched, failed, prev, aside>>

\* scheduler.py lines 35-70: find_one returns or raises, which is logged;
\* either way the wait is computed and slept.
TaskPlan(t) ==
  /\ tasks[t] = "loop"
  /\ tasks' = [tasks EXCEPT ![t] = "wait"]
  /\ UNCHANGED <<archive, store, meta, clock, faults, lifespan, app_state,
                 rf, ld, touched, failed, prev, aside>>

\* scheduler.py lines 70-77 and processor.py lines 30-39: the wait is over,
\* last_update_error is reset and update_gtfs_data_in_db is called; it
\* runs up to the download.
TaskCall(t) ==
  /\ tasks[t] = "wait"
  /\ clock < MaxRuns
  /\ clock' = clock + 1
  /\ tasks' = [tasks EXCEPT ![t] = "inrefresh"]
  /\ app_state' = [app_state EXCEPT !.last_update_error = "None"]
  /\ rf' = [rf EXCEPT ![t] = [IdleRefresh EXCEPT !.pc = "download",
                                                 !.ok0 = meta.ok]]
  /\ touched' = {}
  /\ failed' = {}
  /\ UNCHANGED <<archive, store, meta, faults, lifespan, ld, prev,
                 aside>>

\* scheduler.py line 77: the awaited refresh has returned.
Returned(t) == rf[t].pc \in {"done", "raised"}

\* scheduler.py lines 77-84 and 90-98: the refresh returned; False sets
\* last_update_error, and the loop goes round.  An exception out of the
\* refresh is taken by the handler at line 90.
TaskResume(t) ==
  /\ tasks[t] = "inrefresh"
  /\ Returned(t)
  /\ tasks' = [tasks EXCEPT ![t] = IF rf[t].pc = "raised" THEN "failwait"
                                   ELSE "loop"]
  /\ app_state' = [app_state EXCEPT
                     !.last_update_error =
                       IF rf[t].pc = "raised" THEN "internal"
                       ELSE IF rf[t].success THEN @ ELSE "refresh failed"]
  /\ prev' = [valid |-> rf[t].pc = "done" /\ failed = {}, data |-> store,
              meta |-> meta]
  /\ rf' = [rf EXCEPT ![t] = IdleRefresh]
  /\ UNCHANGED <<archive, store, meta, clock, faults, lifespan, ld, touched,
                 failed, aside>>

\* lifespan.py lines 33-47 with scheduler.py lines 86-89: at shutdown the
\* task is cancelled.  CancelledError is no Exception: it passes the
\* handlers of the loader and of the refresh (whose finally block closes
\* the archive) and reaches the handler at line 86, which clears
\* update_task_running; the sleep at line 26 is outside that try block.
Shutdown ==
  /\ lifespan = "running"
  /\ lifespan' = "stopped"
  /\ LET t == app_state.update_task
     IN /\ tasks' = [tasks EXCEPT ![t] = "cancelled"]
        /\ app_state' = [app_state EXCEPT
                           !.update_task_running =
                             IF tasks[t] \in {"start", "sleep5"} THEN @
                             ELSE FALSE]
        /\ rf' = [rf EXCEPT ![t] = IdleRefresh]
        /\ ld' = [ld EXCEPT ![t] = IdleLoad]
  /\ UNCHANGED <<archive, store, meta, clock, faults, touched, failed, prev,
                 aside>>

\* ------------------------------------------------- the archives served

Without(row, col) == [c \in DOMAIN row \ {col} |-> row[c]]

Table(rows) == [hdr |-> DOMAIN rows[1], rows |-> rows, ioerr |-> 0]

\* csv.DictReader on a line that ends after its first field: the columns
\* the line is too short for hold None.
Short(line, first) ==
  [c \in DOMAIN line |-> IF c = first THEN line[c] ELSE None]

D0101 == <<"2", "0", "2", "4", "0", "1", "0", "1">>

D1231 == <<"2", "0", "2", "4", "1", "2", "3", "1">>

T0800 == <<"8", ":", "0", "0", ":", "0", "0">>

CalLine(sid, start) ==
  [service_id |-> sid, monday |-> <<"1">>, tuesday |-> <<"1">>,
   wednesday |-> <<"1">>, thursday |-> <<"1">>, friday |-> <<"1">>,
   saturday |-> <<"0">>, sunday |-> <<"0">>, start_date |-> start,
   end_date |-> D1231]

CalDateLine(sid, day) ==
  [service_id |-> sid, date |-> day, exception_type |-> <<"2">>]

StopLine(id, name, lat) ==
  [stop_id |-> id, stop_name |-> name, stop_lat |-> lat, stop_lon |-> <<"2">>]

ShapeLine(id, seq) ==
  [shape_id |-> id, shape_pt_lat |-> <<"1">>, shape_pt_lon |-> <<"2">>,
   shape_pt_sequence |-> seq]

TripLine(id, route) ==
  [trip_id |-> id, route_id |-> route, service_id |-> <<"a">>,
   shape_id |-> route]

RouteLine(id) == [route_id |-> id, route_short_name |-> <<"7">>]

StopTimeLine(trip, dep) ==
  [trip_id |-> trip, arrival_time |-> dep, departure_time |-> dep,
   stop_id |-> <<"a">>, stop_sequence |-> <<"1">>]

\* A feed whose seven members hold one well-formed line each, with the
\* identifier id throughout.
Feed(id) ==
  [members |-> Files,
   tables |->
     [f \in Files |->
        CASE f = CALENDAR_FILE -> Table(<<CalLine(id, D0101)>>)
          [] f = CALENDAR_DATES_FILE -> Table(<<CalDateLine(id, D0101)>>)
          [] f = STOPS_FILE -> Table(<<StopLine(id, <<"x">>, <<"1">>)>>)
          [] f = SHAPES_FILE -> Table(<<ShapeLine(id, <<"1">>)>>)
          [] f = TRIPS_FILE -> Table(<<TripLine(id, id)>>)
          [] f = ROUTES_FILE -> Table(<<RouteLine(id)>>)
          [] f = STOP_TIMES_FILE -> Table(<<StopTimeLine(id, T0800)>>)]]

\* Other contents a member may have: lines that are malformed, a header
\* that lacks a column, a read that raises, enough lines for a full batch
\* and a remainder.
Menu(f) ==
  CASE f = STOP_TIMES_FILE ->
         {Table(<<Without(StopTimeLine(<<"a">>, T0800), "departure_time")>>),
          Table(<<StopTimeLine(<<"a">>, T0800), StopTimeLine(<<"a">>, <<"x">>),
                  StopTimeLine(<<"b">>, T0800), StopTimeLine(<<"c">>, T0800)>>),
          [Table(<<StopTimeLine(<<"a">>, T0800), StopTimeLine(<<"b">>, T0800)>>)
             EXCEPT !.ioerr = 2]}
    [] f = STOPS_FILE ->
         {Table(<<StopLine(<<"a">>, <<"x">>, <<"1">>),
                  Short(StopLine(<<"b">>, <<"x">>, <<"1">>), "stop_id"),
                  StopLine(<<"c">>, <<" ", "x">>, <<"1">>)>>)}
    [] f = TRIPS_FILE ->
         {Table(<<Without(TripLine(<<"a">>, <<"a">>), "service_id")>>)}
    [] f = ROUTES_FILE ->
         {[Table(<<RouteLine(<<"a">>)>>) EXCEPT !.ioerr = 1]}
    [] OTHER -> {}

\* The archives GTFS_URL may serve: the plain feed, the feed with one
\* member replaced, and the feed with one member left out.
Archives ==
  {Feed(<<"a">>)}
  \cup UNION {{[Feed(<<"a">>) EXCEPT !.tables[f] = tb] : tb \in Menu(f)} :
                f \in Files}
  \cup {[Feed(<<"a">>) EXCEPT !.members = Files \ {f}] :
          f \in {STOP_TIMES_FILE}}

\* What a complete load of every collection from archive a leaves.
Written(recs) ==
  BulkWrite(<<>>, [k \in 1..Len(recs) |-> Operation(recs[k])])

Loaded(a) ==
  [c \in Collections |->
     Written(StreamFor(c, a,
               stream_parse_trips_and_routes(Member(a, ROUTES_FILE),
                                             Member(a, TRIPS_FILE)).val).recs)]

EmptyStore == [c \in Collections |-> <<>>]

\* ------------------------------------------------------ the whole service

NoRead ==
  [coll |-> "", docs |-> <<>>, pc |-> "idle", sofar |-> <<>>, nfailed |-> 0]

NoParse == [kind |-> "", tbl |-> NoMember, done |-> FALSE,
            out |-> Stream(<<>>, FALSE), linked |-> IdleRefresh.linked]

\* No request served yet.
NoQuery == [handler |-> "", status |-> 0]

\* The scheduler has planned nothing yet.
NoSched ==
  [planned |-> 0, last_update_ts |-> 0, wait_time |-> 0, started |-> 0,
   returned |-> 0, success |-> TRUE, runs |-> 0, retries |-> 0,
   bad |-> FALSE]

\* The process before the application starts.  The store is empty or holds
\* what an earlier process loaded from an older feed.
Init ==
  /\ archive \in Archives
  /\ store \in {EmptyStore, Loaded(Feed(<<"d">>))}
  /\ meta = [ok |-> 0, err |-> 0, msg |-> ""]
  /\ clock = 0
  /\ faults = 0
  /\ lifespan = "init"
  /\ tasks = [t \in Tasks |-> "none"]
  /\ app_state = [update_task |-> 0, update_task_running |-> FALSE,
                  last_update_error |-> "None"]
  /\ rf = [t \in Tasks |-> IdleRefresh]
  /\ ld = [t \in Tasks |-> IdleLoad]
  /\ touched = {}
  /\ failed = {}
  /\ prev = [valid |-> FALSE, data |-> store, meta |-> meta]
  /\ observed = NoRead
  /\ parsed = NoParse
  /\ query = NoQuery
  /\ sched = NoSched

Next ==
  \/ Startup
  \/ Shutdown
  \/ \E t \in Tasks :
       \/ TaskBegin(t)
       \/ TaskWake(t)
       \/ TaskPlan(t)
       \/ TaskCall(t)
       \/ TaskResume(t)
       \/ RfDownload(t)
       \/ RfNext(t)
       \/ RfMeta(t)
       \/ RfExcept(t)
       \/ LdClear(t)
       \/ LdFetch(t)
       \/ LdWrite(t)
       \/ LdFlush(t)
       \/ LdIndex(t)

Spec == Init /\ [][Next]_vars

\* ------------------------------------------------- the loader on its own

\* Records one stream may carry.
MaxStream == 3

RECURSIVE SeqsUpTo(_, _)
SeqsUpTo(S, n) ==
  IF n = 0 THEN {<<>>}
  ELSE LET shorter == SeqsUpTo(S, n - 1)
       IN shorter \cup {Append(q, x) : q \in shorter, x \in S}

\* Documents a stream may yield: two versions of the record with natural
\* id "a", a record with id "b", and a record that carries no id.
StreamDocs ==
  {[_id |-> <<"a">>, v |-> 1], [_id |-> <<"a">>, v |-> 2],
   [_id |-> <<"b">>, v |-> 1], [v |-> 1]}

\* What the collection may hold before the load.
OldDocs == <<[_id |-> <<"a">>, v |-> 0], [_id |-> <<"d">>, v |-> 0], [v |-> 0]>>

\* update_mongo_collection called on its own, at its first await.
InitLoad ==
  /\ archive = Feed(<<"a">>)
  /\ \E c \in {"stops", "routes"}, old \in {<<>>, OldDocs}, clear \in BOOLEAN,
        recs \in SeqsUpTo(StreamDocs, MaxStream), raises \in BOOLEAN :
       /\ store = [EmptyStore EXCEPT ![c] = old]
       /\ ld = [t \in Tasks |->
                  IF t = 1 THEN NewLoad(c, Stream(recs, raises), clear, old)
                  ELSE IdleLoad]
  /\ meta = [ok |-> 0, err |-> 0, msg |-> ""]
  /\ clock = 0
  /\ faults = 0
  /\ lifespan = "running"
  /\ tasks = [t \in Tasks |-> "none"]
  /\ app_state = [update_task |-> 0, update_task_running |-> FALSE,
                  last_update_error |-> "None"]
  /\ rf = [t \in Tasks |-> IdleRefresh]
  /\ touched = {}
  /\ failed = {}
  /\ prev = [valid |-> FALSE, data |-> store, meta |-> meta]
  /\ observed = NoRead
  /\ parsed = NoParse
  /\ query = NoQuery
  /\ sched = NoSched

\* api/endpoints/schedule.py: a query handler reads collection c while the
\* loader is at an await.  What it got is kept, with where the loader
\* stood: the documents handed to bulk_write until then and the bulk
\* writes that had failed.
Read(t) ==
  /\ ld[t].pc \notin {"idle", "ret", "raised"}
  /\ observed = NoRead
  /\ observed' = [coll |-> ld[t].coll, docs |-> store[ld[t].coll],
                  pc |-> ld[t].pc, sofar |-> ld[t].submitted,
                  nfailed |-> ld[t].nfailed]
  /\ UNCHANGED <<archive, store, meta, clock, faults, lifespan, tasks,
                 app_state, rf, ld, touched, failed, prev, parsed, query,
                 sched>>

NextLoad ==
  \/ LdClear(1)
  \/ LdFetch(1)
  \/ LdWrite(1)
  \/ LdFlush(1)
  \/ LdIndex(1)
  \/ Read(1)

SpecLoad == InitLoad /\ [][NextLoad]_vars

\* ----------------------------------------------- the decoders on their own

\* Data lines one table may have.
MaxRows == 3

\* Lines a member may hold: well-formed ones, one with a text where a
\* number or a date belongs, one with an empty required field, and one
\* that ends after its first field.  shapes.txt also has a point of shape a
\* with a lower sequence number, a point with an empty shape_id, and a
\* line that ends before its last column, which is shape_id.  trips.txt
\* also has trips of route a with shape b and with no shape, and a trip of
\* a route that routes.txt does not hold.
Lines(f) ==
  CASE f = STOPS_FILE ->
         {StopLine(<<"a">>, <<"x">>, <<"1">>),
          StopLine(<<"b">>, <<"x">>, <<"x">>),
          Short(StopLine(<<"b">>, <<"x">>, <<"1">>), "stop_id"),
          StopLine(<<"c">>, <<"x">>, <<"1">>)}
    [] f = STOP_TIMES_FILE ->
         {StopTimeLine(<<"a">>, T0800), StopTimeLine(<<"a">>, <<"x">>),
          Short(StopTimeLine(<<"b">>, T0800), "trip_id"),
          StopTimeLine(<<"c">>, T0800)}
    [] f = CALENDAR_FILE ->
         {CalLine(<<"a">>, D0101), CalLine(<<"b">>, <<"x">>),
          Short(CalLine(<<"b">>, D0101), "service_id"),
          CalLine(<<"c">>, D0101)}
    [] f = CALENDAR_DATES_FILE ->
         {CalDateLine(<<"a">>, D0101), CalDateLine(<<>>, D0101),
          Short(CalDateLine(<<"b">>, D0101), "service_id"),
          CalDateLine(<<"c">>, D1231)}
    [] f = SHAPES_FILE ->
         {ShapeLine(<<"a">>, <<"1">>), ShapeLine(<<"b">>, <<"x">>),
          Short(ShapeLine(<<"b">>, <<"1">>), "shape_id"),
          ShapeLine(<<"c">>, <<"1">>),
          [ShapeLine(<<"a">>, <<"0">>) EXCEPT !.shape_pt_lat = <<"5">>],
          ShapeLine(<<>>, <<"1">>),
          [ShapeLine(<<"a">>, <<"1">>) EXCEPT !.shape_id = None]}
    [] f = TRIPS_FILE ->
         {TripLine(<<"a">>, <<"a">>), TripLine(<<>>, <<"a">>),
          Short(TripLine(<<"b">>, <<"a">>), "route_id"),
          TripLine(<<"c">>, <<"a">>),
          [TripLine(<<"b">>, <<"a">>) EXCEPT !.shape_id = <<"b">>],
          [TripLine(<<"d">>, <<"a">>) EXCEPT !.shape_id = <<>>],
          TripLine(<<"z">>, <<"z">>)}
    [] f = ROUTES_FILE ->
         {RouteLine(<<"a">>), RouteLine(<<>>),
          Short(RouteLine(<<"b">>), "route_short_name"),
          RouteLine(<<"c">>)}

\* The member file a collection is loaded from.
FileOf(c) ==
  CASE c = "calendar" -> CALENDAR_FILE
    [] c = "calendar_dates" -> CALENDAR_DATES_FILE
    [] c = "stops" -> STOPS_FILE
    [] c = "shapes" -> SHAPES_FILE
    [] c = "trips" -> TRIPS_FILE
    [] c = "routes" -> ROUTES_FILE
    [] c = "stop_times" -> STOP_TIMES_FILE

\* The stream of collection c out of archive a, consumed to its end.
DecodedWith(c, a, linked) ==
  IF linked.ok THEN StreamFor(c, a, linked.val)
  ELSE IF c \in {"trips", "routes"} THEN Stream(<<>>, TRUE)
  ELSE StreamFor(c, a, IdleRefresh.linked)

Decoded(c, a) ==
  DecodedWith(c, a, stream_parse_trips_and_routes(Member(a, ROUTES_FILE),
                                                  Member(a, TRIPS_FILE)))

\* One decoder is about to read one member of the archive.
InitParse ==
  /\ \E c \in Collections :
       \E rows \in SeqsUpTo(Lines(FileOf(c)), MaxRows) \ {<<>>} :
         /\ archive = [Feed(<<"a">>) EXCEPT !.tables[FileOf(c)] = Table(rows)]
         /\ parsed = [NoParse EXCEPT !.kind = c, !.tbl = Table(rows)]
  /\ store = EmptyStore
  /\ meta = [ok |-> 0, err |-> 0, msg |-> ""]
  /\ clock = 0
  /\ faults = 0
  /\ lifespan = "running"
  /\ tasks = [t \in Tasks |-> "none"]
  /\ app_state = [update_task |-> 0, update_task_running |-> FALSE,
                  last_update_error |-> "None"]
  /\ rf = [t \in Tasks |-> IdleRefresh]
  /\ ld = [t \in Tasks |-> IdleLoad]
  /\ touched = {}
  /\ failed = {}
  /\ prev = [valid |-> FALSE, data |-> store, meta |-> meta]
  /\ observed = NoRead
  /\ query = NoQuery
  /\ sched = NoSched

\* r.val, or dflt when r is an exception.
ValOr(r, dflt) == IF r.ok THEN r.val ELSE dflt

\* The decoder runs over the member; linked keeps what
\* stream_parse_trips_and_routes returned for the archive.
Parse ==
  /\ ~parsed.done
  /\ parsed.kind # ""
  /\ parsed' = [parsed EXCEPT
                  !.done = TRUE,
                  !.out = Decoded(parsed.kind, archive),
                  !.linked =
                    ValOr(stream_parse_trips_and_routes(
                            Member(archive, ROUTES_FILE),
                            Member(archive, TRIPS_FILE)),
                          IdleRefresh.linked)]
  /\ UNCHANGED <<archive, store, meta, clock, faults, lifespan, tasks,
                 app_state, rf, ld, touched, failed, prev, observed, query,
                 sched>>

NextParse == Parse

SpecParse == InitParse /\ [][NextParse]_vars

\* ------------------------------------------------ the calendar resolver

\* date.weekday(): 0 for Monday; ordinal 1 (0001-01-01) is a Monday.
Weekday(day) == (day + 6) % 7

\* a <= b for two datetimes.
DtLte(a, b) == a.day < b.day \/ (a.day = b.day /\ a.sec <= b.sec)

\* A calendar filter whose lower bound is exclusive ($lt for $lte).
CalendarFilterStrict(doc, day_name, target) ==
  /\ doc[day_name] = TRUE
  /\ DtLte(doc.start_date, target) /\ doc.start_date # target
  /\ DtLte(target, doc.end_date)

\* schedule.py lines 39-43: the document matches calendar_filter.
calendar_filter(doc, day_name, target) ==
  /\ doc[day_name] = TRUE
  /\ DtLte(doc.start_date, target)
  /\ DtLte(target, doc.end_date)

\* schedule.py lines 45-46: the _id of every calendar document the find
\* returns.
FromCalendar(calendar, day_name, target) ==
  {calendar[k]._id :
     k \in {j \in 1..Len(calendar) :
              calendar_filter(calendar[j], day_name, target)}}

\* An exceptions loop that applies every stored exception, whatever its
\* date.
RECURSIVE ApplyExceptionsAnyDate(_, _, _, _)
ApplyExceptionsAnyDate(dates, k, target, active_services) ==
  IF k > Len(dates) THEN active_services
  ELSE ApplyExceptionsAnyDate(dates, k + 1, target,
         IF dates[k].exception_type = 1
           THEN active_services \cup {dates[k].service_id}
         ELSE active_services \ {dates[k].service_id})

\* An exceptions loop whose type-1 exception leaves its service alone in
\* the set.
RECURSIVE ApplyExceptionsAlone(_, _, _, _)
ApplyExceptionsAlone(dates, k, target, active_services) ==
  IF k > Len(dates) THEN active_services
  ELSE ApplyExceptionsAlone(dates, k + 1, target,
         IF dates[k].date # target THEN active_services
         ELSE IF dates[k].exception_type = 1
           THEN {dates[k].service_id}
         ELSE IF dates[k].exception_type = 2
           THEN active_services \ {dates[k].service_id}
         ELSE active_services)

\* schedule.py lines 57-70: the exceptions dated target applied one after
\* the other, in the order the cursor returns them, from the k-th on.
RECURSIVE ApplyExceptions(_, _, _, _)
ApplyExceptions(dates, k, target, active_services) ==
  IF k > Len(dates) THEN active_services
  ELSE ApplyExceptions(dates, k + 1, target,
         IF dates[k].date # target THEN active_services
         ELSE IF dates[k].exception_type = 1
           THEN active_services \cup {dates[k].service_id}
         ELSE IF dates[k].exception_type = 2
           THEN active_services \ {dates[k].service_id}
         ELSE active_services)

\* An HTTPException raised with the given status code.
HTTPException(status_code) ==
  [ok |-> FALSE, exc |-> "HTTPException", status_code |-> status_code]

\* schedule.py get_active_service_ids.  fail names the find that raises,
\* "none" when the store answers both.
get_active_service_ids(db, target_date, fail) ==
  IF fail \in {"calendar", "calendar_dates"} THEN HTTPException(500)
  ELSE Val(ApplyExceptions(db["calendar_dates"], 1, DayStart(target_date),
             FromCalendar(db["calendar"], Weekdays[Weekday(target_date) + 1],
                          DayStart(target_date))))

\* ------------------------------------------------- the data the API reads

\* The days of January 2024 a request may name.
MaxDay == 9

\* str(n) for n >= 0.
RECURSIVE Dec(_)
Dec(n) == IF n < 10 THEN <<Digits[n + 1]>>
          ELSE Dec(n \div 10) \o <<Digits[(n % 10) + 1]>>

\* f"{n:02d}" for n >= 0.
Pad2(n) == IF n < 10 THEN <<"0">> \o Dec(n) ELSE Dec(n)

\* The GTFS text of a day of January 2024, and the date it is.
Jan(d) == <<"2", "0", "2", "4", "0", "1">> \o Pad2(d)

JanDay(d) == PyDate(2024, 1, d).val

\* A line of calendar.txt: the service runs on the weekdays in days, from
\* start to end.
CalRange(sid, days, start, end) ==
  [c \in {"service_id", "start_date", "end_date"}
         \cup {Weekdays[i] : i \in 1..7} |->
     CASE c = "service_id" -> sid
       [] c = "start_date" -> start
       [] c = "end_date" -> end
       [] OTHER -> IF c \in days THEN <<"1">> ELSE <<"0">>]

WorkDays == {"monday", "tuesday", "wednesday", "thursday", "friday"}

WeekEnd == {"saturday", "sunday"}

\* A line of calendar_dates.txt.
ExcLine(sid, day, type) ==
  [service_id |-> sid, date |-> day, exception_type |-> type]

\* calendar.txt as served: a working-day service from Tuesday 2 January to
\* Monday 8 January, a weekend service over the whole window, a service
\* that runs on one day only.
CalendarMenu ==
  LET a == CalRange(<<"a">>, WorkDays, Jan(2), Jan(8))
      b == CalRange(<<"b">>, WeekEnd, Jan(1), Jan(MaxDay))
      c == CalRange(<<"c">>, WorkDays \cup WeekEnd, Jan(3), Jan(3))
  IN {Table(<<a>>), Table(<<a, b>>), Table(<<b, c>>), Table(<<c, a, b>>)}

\* Exceptions one calendar_dates.txt may hold.
MaxExc == 2

ExcLines ==
  {ExcLine(sid, Jan(d), type) :
     sid \in {<<"a">>, <<"b">>}, d \in {3, 6}, type \in {<<"1">>, <<"2">>}}

ExceptionMenu ==
  {[hdr |-> {"service_id", "date", "exception_type"}, rows |-> rows,
    ioerr |-> 0] : rows \in SeqsUpTo(ExcLines, MaxExc)}

\* The feeds the store may have been loaded from.
QueryArchives ==
  {[Feed(<<"a">>) EXCEPT !.tables[CALENDAR_FILE] = cal,
                         !.tables[CALENDAR_DATES_FILE] = exc] :
     cal \in CalendarMenu, exc \in ExceptionMenu}

\* The dates a request may name.
TargetDates == {JanDay(d) : d \in 1..MaxDay}

\* The API serving requests from a loaded store, no refresh running.
InitQuery ==
  /\ archive \in QueryArchives
  /\ store = Loaded(archive)
  /\ meta = [ok |-> 1, err |-> 0, msg |-> ""]
  /\ clock = 1
  /\ faults = 0
  /\ lifespan = "running"
  /\ tasks = [t \in Tasks |-> "none"]
  /\ app_state = [update_task |-> 0, update_task_running |-> FALSE,
                  last_update_error |-> "None"]
  /\ rf = [t \in Tasks |-> IdleRefresh]
  /\ ld = [t \in Tasks |-> IdleLoad]
  /\ touched = {}
  /\ failed = {}
  /\ prev = [valid |-> FALSE, data |-> store, meta |-> meta]
  /\ observed = NoRead
  /\ parsed = NoParse
  /\ query = NoQuery
  /\ sched = NoSched

\* The outcome of a call as a status: 200 when it returned.
StatusOf(r) == IF r.ok THEN 200 ELSE r.status_code

\* What the caller gets from get_active_service_ids.
Resolved(target_date, fail, r) ==
  [handler |-> "get_active_service_ids", target_date |-> target_date,
   fail |-> fail, status |-> StatusOf(r),
   active_services |-> IF r.ok THEN r.val ELSE {}]

\* A caller awaits get_active_service_ids(db, target_date).
Resolve ==
  /\ query = NoQuery
  /\ \E target_date \in TargetDates,
        fail \in {"none", "calendar", "calendar_dates"} :
       query' = Resolved(target_date, fail,
                         get_active_service_ids(store, target_date, fail))
  /\ UNCHANGED <<archive, store, meta, clock, faults, lifespan, tasks,
                 app_state, rf, ld, touched, failed, prev, observed, parsed,
                 sched>>

NextQuery ==
  \/ Resolve

SpecQuery == InitQuery /\ [][NextQuery]_vars

\* ----------------------------------------------- the departure queries

\* doc.get(f), and "$doc.f" in a pipeline: None for a field the document
\* lacks.
Field(doc, f) == IF f \in DOMAIN doc THEN doc[f] ELSE None

\* {"$match": {"stop_id": ..., "departure_time": {"$gte": ...}}}
MatchStop(stop_times, stop_id, cutoff) ==
  LET hit(d) == d.stop_id = stop_id /\ d.departure_time >= cutoff
  IN SelectSeq(stop_times, hit)

\* {"$sort": {"departure_time": ASCENDING}}, equal times left in the order
\* the store holds them.
RECURSIVE InsertByDeparture(_, _)
InsertByDeparture(sorted, d) ==
  IF sorted = <<>> THEN <<d>>
  ELSE IF sorted[Len(sorted)].departure_time <= d.departure_time
    THEN Append(sorted, d)
  ELSE Append(InsertByDeparture(SubSeq(sorted, 1, Len(sorted) - 1), d),
              sorted[Len(sorted)])

RECURSIVE SortByDeparture(_)
SortByDeparture(docs) ==
  IF docs = <<>> THEN <<>>
  ELSE InsertByDeparture(SortByDeparture(SubSeq(docs, 1, Len(docs) - 1)),
                         docs[Len(docs)])

\* {"$limit": n}
Limit(docs, n) == SubSeq(docs, 1, IF n < Len(docs) THEN n ELSE Len(docs))

\* The documents of a collection with the given _id.
ById(docs, id) ==
  LET hit(d) == HasId(d) /\ d._id = id
  IN SelectSeq(docs, hit)

\* A join that pairs every candidate with the first trip stored, whatever
\* its _id.
JoinFirstTrip(cands, trips) ==
  IF trips = <<>> THEN <<>>
  ELSE [k \in 1..Len(cands) |-> [st |-> cands[k], tripInfoList |-> trips[1]]]

\* $lookup into trips on trip_id = _id, the $match that drops a stop_time
\* without a trip, and the $unwind (an _id is unique, so one row each).
JoinTrips(cands, trips) ==
  LET found(d) == ById(trips, d.trip_id) # <<>>
      kept == SelectSeq(cands, found)
  IN [k \in 1..Len(kept) |->
        [st |-> kept[k], tripInfoList |-> ById(trips, kept[k].trip_id)[1]]]

\* A service filter that lets every joined row through.
AnyService(rows, active_services) == rows

\* {"$match": {"tripInfoList.service_id": {"$in": [...]}}}
MatchService(rows, active_services) ==
  LET hit(r) == r.tripInfoList.service_id \in active_services
  IN SelectSeq(rows, hit)

\* The same $match with "tripInfoList.route_id": route_id added
\* (schedule.py lines 340-345).
MatchServiceAndRoute(rows, active_services, route_id) ==
  LET hit(r) == /\ r.tripInfoList.service_id \in active_services
                /\ r.tripInfoList.route_id = route_id
  IN SelectSeq(rows, hit)

\* A join that drops the rows whose route is not stored.
InnerJoinRoutes(rows, routes) ==
  LET found(row) == ById(routes, row.tripInfoList.route_id) # <<>>
      kept == SelectSeq(rows, found)
  IN [k \in 1..Len(kept) |->
        [st |-> kept[k].st, tripInfoList |-> kept[k].tripInfoList,
         routeInfoList |-> ById(routes, kept[k].tripInfoList.route_id)]]

\* $lookup into routes on tripInfoList.route_id = _id, unwound with
\* preserveNullAndEmptyArrays: the row stays when no route is found.
JoinRoutes(rows, routes) ==
  [k \in 1..Len(rows) |->
     [st |-> rows[k].st, tripInfoList |-> rows[k].tripInfoList,
      routeInfoList |-> ById(routes, rows[k].tripInfoList.route_id)]]

\* "$routeInfoList.f" after the $unwind.
RouteField(row, f) ==
  IF row.routeInfoList = <<>> THEN None ELSE Field(row.routeInfoList[1], f)

\* {"$ifNull": [a, b]}
IfNull(a, b) == IF a = None THEN b ELSE a

\* A formatter that shows the time on a clock of 24 hours.
FormatOnClock(total_seconds) ==
  IF total_seconds < 0 THEN <<"0", "0", ":", "0", "0", ":", "0", "0">>
  ELSE Pad2((total_seconds \div 3600) % 24) \o <<":">>
       \o Pad2((total_seconds % 3600) \div 60) \o <<":">>
       \o Pad2(total_seconds % 60)

\* schedule.py format_seconds_to_gtfs_time.
format_seconds_to_gtfs_time(total_seconds) ==
  IF total_seconds < 0 THEN <<"0", "0", ":", "0", "0", ":", "0", "0">>
  ELSE Pad2(total_seconds \div 3600) \o <<":">>
       \o Pad2((total_seconds % 3600) \div 60) \o <<":">>
       \o Pad2(total_seconds % 60)

\* The $project stage and the DepartureInfo built from its document.
DepartureInfo(row) ==
  [departure_time |-> format_seconds_to_gtfs_time(row.st.departure_time),
   route_short_name |-> RouteField(row, "route_short_name"),
   route_long_name |-> RouteField(row, "route_long_name"),
   trip_headsign |-> IfNull(Field(row.st, "stop_headsign"),
                            Field(row.tripInfoList, "trip_headsign")),
   route_color |-> RouteField(row, "route_color"),
   wheelchair_accessible |-> Field(row.tripInfoList, "wheelchair_accessible")]

Formatted(rows) == [k \in 1..Len(rows) |-> DepartureInfo(rows[k])]

\* schedule.py line 175: initial_limit = limit * 5.
OverFetch == 5

\* The $limit stage of line 191.
Window(cands, limit) == Limit(cands, limit * OverFetch)

\* The pipeline of get_next_departures_endpoint (lines 177-240) and the
\* loop that formats its documents (lines 248-261).
Departures(db, stop_id, limit, cutoff, active_services) ==
  Formatted(
    Limit(JoinRoutes(
            MatchService(
              JoinTrips(Window(SortByDeparture(
                                 MatchStop(db["stop_times"], stop_id, cutoff)),
                               limit),
                        db["trips"]),
              active_services),
            db["routes"]),
          limit))

\* A single-departure pipeline with the list query's candidate window.
NextOfRouteWindowed(db, stop_id, route_id, cutoff, active_services) ==
  Formatted(
    JoinRoutes(
      Limit(MatchServiceAndRoute(
              JoinTrips(Limit(SortByDeparture(
                                MatchStop(db["stop_times"], stop_id, cutoff)),
                              OverFetch),
                        db["trips"]),
              active_services, route_id),
            1),
      db["routes"]))

\* The pipeline of get_next_departure_for_route (lines 330-363).
NextOfRoute(db, stop_id, route_id, cutoff, active_services) ==
  Formatted(
    JoinRoutes(
      Limit(MatchServiceAndRoute(
              JoinTrips(SortByDeparture(
                          MatchStop(db["stop_times"], stop_id, cutoff)),
                        db["trips"]),
              active_services, route_id),
            1),
      db["routes"]))

\* date.fromisoformat on a text of the form YYYY-MM-DD.
fromisoformat(s) ==
  PyDate(PyInt(SubSeq(s, 1, 4)).val, PyInt(SubSeq(s, 6, 7)).val,
         PyInt(SubSeq(s, 9, 10)).val)

\* schedule.py line 130: the date asked for, or today's.
TargetDate(date_str, now) ==
  IF Truthy(date_str) THEN fromisoformat(date_str) ELSE Val(now.day)

\* schedule.py lines 138-151: the start time asked for in seconds, or the
\* time it is.
Seconds(h, m, s) ==
  IF ~(h.ok /\ m.ok /\ s.ok) THEN Raise("ValueError")
  ELSE IF ~(0 <= m.val /\ m.val < 60 /\ 0 <= s.val /\ s.val < 60
            /\ h.val >= 0) THEN Raise("ValueError")
  ELSE Val(h.val * 3600 + m.val * 60 + s.val)

HMS(parts) ==
  IF Len(parts) # 3 THEN Raise("ValueError")
  ELSE Seconds(PyInt(parts[1]), PyInt(parts[2]), PyInt(parts[3]))

StartSeconds(start_time_str, now) ==
  IF Truthy(start_time_str) THEN HMS(SplitColon(start_time_str))
  ELSE Val(now.seconds)

\* What a handler answers: the status, the body, and whether it ran its
\* aggregation pipeline.
Response(status, body, piped) ==
  [status |-> status, body |-> body, piped |-> piped]

\* A list query that goes on to the pipeline with an empty service set.
ListNoShortCut(db, stop_id, limit, cutoff, r, fail) ==
  IF ~r.ok THEN Response(r.status_code, <<>>, FALSE)
  ELSE IF fail = "aggregate" THEN Response(500, <<>>, TRUE)
  ELSE Response(200, Departures(db, stop_id, limit, cutoff, r.val), TRUE)

\* get_next_departures_endpoint from line 156 on, r being what
\* get_active_service_ids came to.
ListFrom(db, stop_id, limit, cutoff, r, fail) ==
  IF ~r.ok THEN Response(r.status_code, <<>>, FALSE)
  ELSE IF r.val = {} THEN Response(200, <<>>, FALSE)
  ELSE IF fail = "aggregate" THEN Response(500, <<>>, TRUE)
  ELSE Response(200, Departures(db, stop_id, limit, cutoff, r.val), TRUE)

\* schedule.py get_next_departures_endpoint, date and start being what the
\* request parameters parsed to.
get_next_departures_endpoint(db, stop_id, limit, start, date, fail) ==
  IF ~date.ok \/ ~start.ok THEN Response(400, <<>>, FALSE)
  ELSE ListFrom(db, stop_id, limit, start.val,
                get_active_service_ids(db, date.val, fail), fail)

\* The single-departure handler once its pipeline has answered.
Found(docs) ==
  IF docs = <<>> THEN Response(404, <<>>, TRUE) ELSE Response(200, docs, TRUE)

\* get_next_departure_for_route from line 316 on.
SingleFrom(db, stop_id, route_id, cutoff, r, fail) ==
  IF ~r.ok THEN Response(r.status_code, <<>>, FALSE)
  ELSE IF r.val = {} THEN Response(404, <<>>, FALSE)
  ELSE IF fail = "aggregate" THEN Response(500, <<>>, TRUE)
  ELSE Found(NextOfRoute(db, stop_id, route_id, cutoff, r.val))

\* schedule.py get_next_departure_for_route.
get_next_departure_for_route(db, stop_id, route_id, start, date, fail) ==
  IF ~date.ok \/ ~start.ok THEN Response(400, <<>>, FALSE)
  ELSE SingleFrom(db, stop_id, route_id, start.val,
                  get_active_service_ids(db, date.val, fail), fail)

\* ---------------------------------------------------- the lookups by id

\* find_one(..., {"location": 0}): the document without its location.
NoLocation(doc) == [f \in DOMAIN doc \ {"location"} |-> doc[f]]

\* The try block of a lookup handler (stops.py lines 39-42, routes.py lines
\* 45-48): find_one raises when the store fails, the handler raises 404 for
\* no document, and returns the document otherwise.
FindOne(docs, id, fail) ==
  IF fail = "find_one" THEN Raise("PyMongoError")
  ELSE IF ById(docs, id) = <<>> THEN HTTPException(404)
  ELSE Val(ById(docs, id)[1])

\* `except Exception` around that block (stops.py lines 43-45, routes.py
\* lines 49-54): whatever was raised in it, the HTTPException of the
\* handler's own 404 included, becomes a 500.
ExceptException(r) == IF r.ok THEN r ELSE HTTPException(500)

\* stops.py get_stop_by_id_endpoint.
get_stop_by_id_endpoint(db, stop_id, fail) ==
  ExceptException(FindOne([k \in 1..Len(db["stops"]) |->
                             NoLocation(db["stops"][k])], stop_id, fail))

\* routes.py get_route_by_id_endpoint.
get_route_by_id_endpoint(db, route_id, fail) ==
  ExceptException(FindOne(db["routes"], route_id, fail))

\* ---------------------------------------------------- the API serving

\* Largest limit a request may carry (the source allows 1..50).
MaxLimit == 2
\* Further stop_times the feed may hold.
MaxTimes == 2

\* The text H:00:00 and H:30:00 of an hour.
OClock(h) == Dec(h) \o <<":", "0", "0", ":", "0", "0">>

HalfPast(h) == Dec(h) \o <<":", "3", "0", ":", "0", "0">>

\* A line of stop_times.txt: trip calls at stop at the time dep.
CallLine(trip, stop, dep) ==
  [trip_id |-> trip, arrival_time |-> dep, departure_time |-> dep,
   stop_id |-> stop, stop_sequence |-> <<"1">>]

\* n calls of trip b at stop a, on the hour from 1:00:00 on.
RECURSIVE Earlier(_)
Earlier(n) ==
  IF n = 0 THEN <<>>
  ELSE Append(Earlier(n - 1), CallLine(<<"b">>, <<"a">>, OClock(n)))

\* How many calls of trip b may precede the others at stop a: none, one
\* less than the candidate window of a one-departure request holds, and as
\* many as it holds.
EarlierCounts == {0, OverFetch - 1, OverFetch}

\* Later calls at stop a: of trip a, of trip c (whose route is not in
\* routes.txt), of a trip that trips.txt does not hold; and a call of trip
\* a at another stop.
TimeLines ==
  {CallLine(<<"a">>, <<"a">>, OClock(8)),
   CallLine(<<"c">>, <<"a">>, HalfPast(8)),
   CallLine(<<"d">>, <<"a">>, HalfPast(7)),
   CallLine(<<"a">>, <<"b">>, OClock(7))}

StopTimesMenu ==
  {[hdr |-> DOMAIN CallLine(<<>>, <<>>, <<>>), rows |-> Earlier(n) \o rest,
    ioerr |-> 0] :
     n \in EarlierCounts, rest \in SeqsUpTo(TimeLines, MaxTimes)}

\* A line of trips.txt with its own service.
TripOn(id, route, service) ==
  [trip_id |-> id, route_id |-> route, service_id |-> service,
   shape_id |-> <<>>]

\* The feed the API serves: a working-day service a and a weekend service
\* b, trips a and c on service a, trip b on service b, routes a and b.
ServedFeed ==
  [Feed(<<"a">>) EXCEPT
     !.tables[CALENDAR_FILE] =
        Table(<<CalRange(<<"a">>, WorkDays, Jan(2), Jan(8)),
                CalRange(<<"b">>, WeekEnd, Jan(1), Jan(8))>>),
     !.tables[CALENDAR_DATES_FILE] =
        [hdr |-> {"service_id", "date", "exception_type"}, rows |-> <<>>,
         ioerr |-> 0],
     !.tables[TRIPS_FILE] =
        Table(<<TripOn(<<"a">>, <<"a">>, <<"a">>),
                TripOn(<<"b">>, <<"b">>, <<"b">>),
                TripOn(<<"c">>, <<"z">>, <<"a">>)>>),
     !.tables[ROUTES_FILE] = Table(<<RouteLine(<<"a">>), RouteLine(<<"b">>)>>)]

ServedArchives ==
  {[ServedFeed EXCEPT !.tables[STOP_TIMES_FILE] = tbl] : tbl \in StopTimesMenu}

\* The request parameters: date (a working day, a Saturday, a day without
\* service, a day that does not exist, or none), startTime (with minutes
\* out of range, or none), and what the server's clock shows.
IsoJan(d) == <<"2", "0", "2", "4", "-", "0", "1", "-">> \o Pad2(d)

DateStrs == {None, IsoJan(3), IsoJan(6), IsoJan(9), IsoJan(32)}

StartTimes == {None, OClock(0), <<"9", ":", "6", "0", ":", "0", "0">>}

Nows == {[day |-> JanDay(3), seconds |-> 30600]}

Fails == {"none", "calendar", "calendar_dates", "aggregate"}

InitServe ==
  /\ archive \in ServedArchives
  /\ store = Loaded(archive)
  /\ meta = [ok |-> 1, err |-> 0, msg |-> ""]
  /\ clock = 1
  /\ faults = 0
  /\ lifespan = "running"
  /\ tasks = [t \in Tasks |-> "none"]
  /\ app_state = [update_task |-> 0, update_task_running |-> FALSE,
                  last_update_error |-> "None"]
  /\ rf = [t \in Tasks |-> IdleRefresh]
  /\ ld = [t \in Tasks |-> IdleLoad]
  /\ touched = {}
  /\ failed = {}
  /\ prev = [valid |-> FALSE, data |-> store, meta |-> meta]
  /\ observed = NoRead
  /\ parsed = NoParse
  /\ query = NoQuery
  /\ sched = NoSched

\* The request served, as the handler parsed it, with its response.
Served(handler, stop_id, route_id, limit, start, date, fail, resp) ==
  [handler |-> handler, stop_id |-> stop_id, route_id |-> route_id,
   limit |-> limit, cutoff |-> IF start.ok THEN start.val ELSE 0 - 1,
   target_date |-> IF date.ok THEN date.val ELSE 0, fail |-> fail,
   status |-> resp.status, body |-> resp.body, piped |-> resp.piped]

\* GET /stops/{stop_id}/next-departures
NextDepartures ==
  /\ query = NoQuery
  /\ \E stop_id \in {<<"a">>, <<"z">>}, limit \in 1..MaxLimit,
        start_time_str \in StartTimes, date_str \in DateStrs, now \in Nows,
        fail \in Fails :
       query' =
         Served("get_next_departures_endpoint", stop_id, None, limit,
                StartSeconds(start_time_str, now), TargetDate(date_str, now),
                fail,
                get_next_departures_endpoint(store, stop_id, limit,
                  StartSeconds(start_time_str, now),
                  TargetDate(date_str, now), fail))
  /\ UNCHANGED <<archive, store, meta, clock, faults, lifespan, tasks,
                 app_state, rf, ld, touched, failed, prev, observed, parsed,
                 sched>>

\* GET /stops/{stop_id}/next-departure?route_id=...
NextDeparture ==
  /\ query = NoQuery
  /\ \E stop_id \in {<<"a">>, <<"z">>}, route_id \in {<<"a">>, <<"z">>},
        start_time_str \in StartTimes, date_str \in DateStrs, now \in Nows,
        fail \in Fails :
       query' =
         Served("get_next_departure_for_route", stop_id, route_id, 1,
                StartSeconds(start_time_str, now), TargetDate(date_str, now),
                fail,
                get_next_departure_for_route(store, stop_id, route_id,
                  StartSeconds(start_time_str, now),
                  TargetDate(date_str, now), fail))
  /\ UNCHANGED <<archive, store, meta, clock, faults, lifespan, tasks,
                 app_state, rf, ld, touched, failed, prev, observed, parsed,
                 sched>>

\* The lookup served, with its response.
Looked(handler, id, fail, r) ==
  [handler |-> handler, id |-> id, fail |-> fail, status |-> StatusOf(r),
   body |-> IF r.ok THEN <<r.val>> ELSE <<>>]

\* GET /stops/{stop_id}
GetStop ==
  /\ query = NoQuery
  /\ \E stop_id \in {<<"a">>, <<"z">>}, fail \in {"none", "find_one"} :
       query' = Looked("get_stop_by_id_endpoint", stop_id, fail,
                       get_stop_by_id_endpoint(store, stop_id, fail))
  /\ UNCHANGED <<archive, store, meta, clock, faults, lifespan, tasks,
                 app_state, rf, ld, touched, failed, prev, observed, parsed,
                 sched>>

\* GET /routes/{route_id}
GetRoute ==
  /\ query = NoQuery
  /\ \E route_id \in {<<"a">>, <<"z">>}, fail \in {"none", "find_one"} :
       query' = Looked("get_route_by_id_endpoint", route_id, fail,
                       get_route_by_id_endpoint(store, route_id, fail))
  /\ UNCHANGED <<archive, store, meta, clock, faults, lifespan, tasks,
                 app_state, rf, ld, touched, failed, prev, observed, parsed,
                 sched>>

NextServe ==
  \/ NextDepartures
  \/ NextDeparture
  \/ GetStop
  \/ GetRoute

SpecServe == InitServe /\ [][NextServe]_vars

\* ------------------------------------------------- the scheduler in time

\* core/config.py line 49: the default of UPDATE_INTERVAL_SECONDS, a week.
UPDATE_INTERVAL_SECONDS == 604800

\* max(a, b).
PyMax(a, b) == IF a >= b THEN a ELSE b

\* A plan that sleeps just until the scheduled time, however near.
WaitTimeNoFloor(last_update_ts, now_utc) ==
  IF last_update_ts # 0
    THEN last_update_ts + UPDATE_INTERVAL_SECONDS - now_utc
    ELSE UPDATE_INTERVAL_SECONDS

\* scheduler.py lines 48-63: the seconds to the next scheduled refresh,
\* counted from the last successful one when there is one (0: None) and
\* from now otherwise, and at least 10.
wait_time(last_update_ts, now_utc) ==
  LET next_scheduled_update_time ==
        IF last_update_ts # 0
          THEN last_update_ts + UPDATE_INTERVAL_SECONDS
          ELSE now_utc + UPDATE_INTERVAL_SECONDS
  IN PyMax(10, next_scheduled_update_time - now_utc)

\* scheduler.py line 95: max(60.0, UPDATE_INTERVAL_SECONDS / 10).
fail_wait_time == PyMax(60, UPDATE_INTERVAL_SECONDS \div 10)

\* Seconds asyncio.sleep may take beyond what it was asked for.
Oversleeps == {0, 1}

\* Seconds one refresh may take.
Durations == {1, 30}

\* The time the process starts at.
StartTime == 2 * UPDATE_INTERVAL_SECONDS

\* last_successful_update_utc as an earlier process may have left it:
\* absent, more than an interval ago, or a moment ago.
StoredTimes ==
  {0, StartTime - UPDATE_INTERVAL_SECONDS - 100, StartTime - 100}

\* The process before the application starts, at StartTime.  sched.bad
\* says that the record holds a last_successful_update_utc that is no
\* datetime (a text), which meta.ok does not show.
InitSched ==
  /\ archive = Feed(<<"a">>)
  /\ store = EmptyStore
  /\ \E ts \in StoredTimes, bad \in BOOLEAN :
       /\ bad => ts = 0
       /\ meta = [ok |-> ts, err |-> 0, msg |-> ""]
       /\ sched = [NoSched EXCEPT !.bad = bad]
  /\ clock = StartTime
  /\ faults = 0
  /\ lifespan = "init"
  /\ tasks = [t \in Tasks |-> "none"]
  /\ app_state = [update_task |-> 0, update_task_running |-> FALSE,
                  last_update_error |-> "None"]
  /\ rf = [t \in Tasks |-> IdleRefresh]
  /\ ld = [t \in Tasks |-> IdleLoad]
  /\ touched = {}
  /\ failed = {}
  /\ prev = [valid |-> FALSE, data |-> store, meta |-> meta]
  /\ observed = NoRead
  /\ parsed = NoParse
  /\ query = NoQuery

\* scheduler.py lines 26-29: the sleep of 5 seconds ends and the loop is
\* entered.
SchedWake(t) ==
  /\ tasks[t] = "sleep5"
  /\ \E late \in Oversleeps : clock' = clock + 5 + late
  /\ tasks' = [tasks EXCEPT ![t] = "loop"]
  /\ UNCHANGED <<archive, store, meta, faults, lifespan, app_state, rf, ld,
                 touched, failed, prev, observed, parsed, query, sched>>

\* scheduler.py lines 33-70: find_one returns the record or raises, which
\* leaves last_update_ts None; the wait is computed and the sleep begins.
\* Adding a timedelta to a value that is no datetime raises TypeError
\* (line 52), which the handler at line 90 takes: last_update_error is set
\* and the sleep of fail_wait_time begins (lines 93-98).
SchedPlan(t) ==
  /\ tasks[t] = "loop"
  /\ \E raises \in BOOLEAN :
       LET last_update_ts == IF raises THEN 0 ELSE meta.ok
       IN IF ~raises /\ sched.bad
            THEN /\ tasks' = [tasks EXCEPT ![t] = "failwait"]
                 /\ app_state' = [app_state EXCEPT
                                    !.last_update_error = "internal"]
                 /\ sched' = [sched EXCEPT !.planned = clock,
                                           !.wait_time = fail_wait_time]
            ELSE /\ tasks' = [tasks EXCEPT ![t] = "wait"]
                 /\ app_state' = app_state
                 /\ sched' = [sched EXCEPT
                                !.planned = clock,
                                !.last_update_ts = last_update_ts,
                                !.wait_time = wait_time(last_update_ts,
                                                        clock)]
  /\ UNCHANGED <<archive, store, meta, clock, faults, lifespan, rf, ld,
                 touched, failed, prev, observed, parsed, query>>

\* scheduler.py lines 70-77: the sleep of wait_time is over,
\* last_update_error is reset and update_gtfs_data_in_db is called.
SchedCall(t) ==
  /\ tasks[t] = "wait"
  /\ sched.runs < MaxRuns
  /\ \E late \in Oversleeps :
       /\ clock' = sched.planned + sched.wait_time + late
       /\ sched' = [sched EXCEPT
                      !.started = sched.planned + sched.wait_time + late,
                      !.runs = @ + 1]
  /\ tasks' = [tasks EXCEPT ![t] = "inrefresh"]
  /\ app_state' = [app_state EXCEPT !.last_update_error = "None"]
  /\ UNCHANGED <<archive, store, meta, faults, lifespan, rf, ld, touched,
                 failed, prev, observed, parsed, query>>

\* scheduler.py lines 77-84 with processor.py lines 74-80 and 101: the
\* refresh returns True, having written last_successful_update_utc, or
\* False, having left it; False sets last_update_error.  The loop goes
\* round.
SchedReturn(t) ==
  /\ tasks[t] = "inrefresh"
  /\ \E d \in Durations, success \in BOOLEAN :
       /\ clock' = clock + d
       /\ meta' = IF success THEN [meta EXCEPT !.ok = clock + d] ELSE meta
       /\ sched' = [sched EXCEPT !.returned = clock + d,
                                 !.success = success,
                                 !.bad = IF success THEN FALSE ELSE @]
       /\ app_state' = [app_state EXCEPT
                          !.last_update_error =
                            IF success THEN @ ELSE "refresh failed"]
  /\ tasks' = [tasks EXCEPT ![t] = "loop"]
  /\ UNCHANGED <<archive, store, faults, lifespan, rf, ld, touched, failed,
                 prev, observed, parsed, query>>

\* scheduler.py lines 98-103: the sleep after a loop error is over and the
\* loop goes round.
SchedRetry(t) ==
  /\ tasks[t] = "failwait"
  /\ sched.retries < MaxRuns
  /\ \E late \in Oversleeps :
       clock' = sched.planned + sched.wait_time + late
  /\ sched' = [sched EXCEPT !.retries = @ + 1]
  /\ tasks' = [tasks EXCEPT ![t] = "loop"]
  /\ UNCHANGED <<archive, store, meta, faults, lifespan, app_state, rf, ld,
                 touched, failed, prev, observed, parsed, query>>

NextSched ==
  \/ Startup
  \/ Shutdown
  \/ \E t \in Tasks :
       \/ TaskBegin(t)
       \/ SchedWake(t)
       \/ SchedPlan(t)
       \/ SchedCall(t)
       \/ SchedReturn(t)
       \/ SchedRetry(t)

SpecSched == InitSched /\ [][NextSched]_vars

\* ------------------------------------------------- the times of day

\* The seconds the formatter is given run from 0 to 26 hours, past
\* midnight and past 25:30:15.
MaxSeconds == 93600

\* Times of a hundred hours and more.
LongTimes == {360000, 360000 + 3599, 3600000 + 61}

\* The process with nothing loaded, before any time is formatted.
InitTime ==
  /\ archive = Feed(<<"a">>)
  /\ store = EmptyStore
  /\ meta = [ok |-> 0, err |-> 0, msg |-> ""]
  /\ clock = 0
  /\ faults = 0
  /\ lifespan = "running"
  /\ tasks = [t \in Tasks |-> "none"]
  /\ app_state = [update_task |-> 0, update_task_running |-> FALSE,
                  last_update_error |-> "None"]
  /\ rf = [t \in Tasks |-> IdleRefresh]
  /\ ld = [t \in Tasks |-> IdleLoad]
  /\ touched = {}
  /\ failed = {}
  /\ prev = [valid |-> FALSE, data |-> store, meta |-> meta]
  /\ observed = NoRead
  /\ parsed = NoParse
  /\ query = NoQuery
  /\ sched = NoSched

\* schedule.py line 252: a departure time in seconds is formatted.
FormatTime ==
  /\ query = NoQuery
  /\ \E total_seconds \in (0..MaxSeconds) \cup LongTimes :
       query' = [handler |-> "format_seconds_to_gtfs_time", status |-> 0,
                 total_seconds |-> total_seconds,
                 time_str |-> format_seconds_to_gtfs_time(total_seconds)]
  /\ UNCHANGED <<archive, store, meta, clock, faults, lifespan, tasks,
                 app_state, rf, ld, touched, failed, prev, observed, parsed,
                 sched>>

\* parsers.py line 268: the text is read back as a stop_times.txt would
\* hold it.
ParseTime ==
  /\ query.handler = "format_seconds_to_gtfs_time"
  /\ query' = [handler |-> "gtfs_time_to_seconds", status |-> 0,
               total_seconds |-> query.total_seconds,
               time_str |-> query.time_str,
               seconds |-> gtfs_time_to_seconds(query.time_str)]
  /\ UNCHANGED <<archive, store, meta, clock, faults, lifespan, tasks,
                 app_state, rf, ld, touched, failed, prev, observed, parsed,
                 sched>>

NextTime ==
  \/ FormatTime
  \/ ParseTime

SpecTime == InitTime /\ [][NextTime]_vars

\* ------------------------------------- a departure query during a refresh

\* The feed the store was loaded from before the refresh: service a on
\* working days (an exception takes it out on Monday 1 January), trip a
\* on route a ("7"), calling at stop a at 8:00:00.
MixOld == Feed(<<"a">>)

\* The feeds the refresh may load.  One keeps the identifiers: route a is
\* renamed "9" and trip a calls at 9:00:00 and 10:00:00 (a full batch).
\* The other renumbers: trip b
\* on route b ("9") calls at 9:00:00, and an exception takes service a
\* out on Wednesday 3 January.
MixSame ==
  [Feed(<<"a">>) EXCEPT
     !.tables[ROUTES_FILE] =
        Table(<<[RouteLine(<<"a">>) EXCEPT !.route_short_name = <<"9">>]>>),
     !.tables[STOP_TIMES_FILE] =
        Table(<<StopTimeLine(<<"a">>, OClock(9)),
                StopTimeLine(<<"a">>, OClock(10))>>)]

MixRenumbered ==
  [Feed(<<"a">>) EXCEPT
     !.tables[CALENDAR_DATES_FILE] = Table(<<CalDateLine(<<"a">>, Jan(3))>>),
     !.tables[TRIPS_FILE] = Table(<<TripLine(<<"b">>, <<"b">>)>>),
     !.tables[ROUTES_FILE] =
        Table(<<[RouteLine(<<"b">>) EXCEPT !.route_short_name = <<"9">>]>>),
     !.tables[STOP_TIMES_FILE] =
        Table(<<StopTimeLine(<<"b">>, OClock(9))>>)]

MixArchives == {MixSame, MixRenumbered}

\* The dates asked for: a Wednesday and a Saturday.
MixDates == {JanDay(3), JanDay(6)}

\* The service is running on the old feed; the background task is in its
\* wait, one refresh ahead of it, in which at most one store command
\* fails.
InitMix ==
  /\ archive \in MixArchives
  /\ store = Loaded(MixOld)
  /\ meta = [ok |-> 1, err |-> 0, msg |-> ""]
  /\ clock = MaxRuns - 1
  /\ faults = MaxFaults - 1
  /\ lifespan = "running"
  /\ tasks = [t \in Tasks |-> IF t = 1 THEN "wait" ELSE "none"]
  /\ app_state = [update_task |-> 1, update_task_running |-> TRUE,
                  last_update_error |-> "None"]
  /\ rf = [t \in Tasks |-> IdleRefresh]
  /\ ld = [t \in Tasks |-> IdleLoad]
  /\ touched = {}
  /\ failed = {}
  /\ prev = [valid |-> TRUE, data |-> store, meta |-> meta]
  /\ observed = NoRead
  /\ parsed = NoParse
  /\ query = NoQuery
  /\ sched = NoSched

\* Whether a refresh is between its call and its return.
Refreshing == \E t \in Tasks : tasks[t] = "inrefresh" /\ ~Returned(t)

\* schedule.py lines 130-156 and 45-46: the request is parsed and the find
\* on calendar is answered.  mid is history: whether a command of the
\* request was answered while a refresh was running.
MixCalendar ==
  /\ query = NoQuery
  /\ \E target_date \in MixDates :
       query' =
         [handler |-> "get_next_departures_endpoint", pc |-> "calendar_dates",
          stop_id |-> <<"a">>, limit |-> MaxLimit, cutoff |-> 0,
          target_date |-> target_date,
          active_services |->
            FromCalendar(store["calendar"],
                         Weekdays[Weekday(target_date) + 1],
                         DayStart(target_date)),
          mid |-> Refreshing, status |-> 0, body |-> <<>>]
  /\ UNCHANGED <<archive, store, meta, clock, faults, lifespan, tasks,
                 app_state, rf, ld, touched, failed, prev, observed, parsed,
                 sched>>

\* schedule.py lines 57-76 and 156-161: the find on calendar_dates is
\* answered and its exceptions applied; with no active service the handler
\* returns the empty list.
MixCalendarDates ==
  /\ query.handler = "get_next_departures_endpoint"
  /\ query.pc = "calendar_dates"
  /\ LET active_services ==
           ApplyExceptions(store["calendar_dates"], 1,
                           DayStart(query.target_date),
                           query.active_services)
     IN query' =
          [query EXCEPT
             !.active_services = active_services,
             !.mid = @ \/ Refreshing,
             !.pc = IF active_services = {} THEN "done" ELSE "aggregate",
             !.status = IF active_services = {} THEN 200 ELSE 0]
  /\ UNCHANGED <<archive, store, meta, clock, faults, lifespan, tasks,
                 app_state, rf, ld, touched, failed, prev, observed, parsed,
                 sched>>

\* schedule.py lines 177-262: the aggregation is answered and the handler
\* returns the formatted departures.
MixAggregate ==
  /\ query.handler = "get_next_departures_endpoint"
  /\ query.pc = "aggregate"
  /\ query' =
       [query EXCEPT
          !.pc = "done", !.status = 200, !.mid = @ \/ Refreshing,
          !.body = Departures(store, query.stop_id, query.limit,
                              query.cutoff, query.active_services)]
  /\ UNCHANGED <<archive, store, meta, clock, faults, lifespan, tasks,
                 app_state, rf, ld, touched, failed, prev, observed, parsed,
                 sched>>

NextMix ==
  \/ MixCalendar
  \/ MixCalendarDates
  \/ MixAggregate
  \/ \E t \in Tasks :
       \/ TaskCall(t)
       \/ TaskResume(t)
       \/ RfDownload(t)
       \/ RfNext(t)
       \/ RfMeta(t)
       \/ RfExcept(t)
       \/ LdClear(t)
       \/ LdFetch(t)
       \/ LdWrite(t)
       \/ LdFlush(t)
       \/ LdIndex(t)

SpecMix == InitMix /\ [][NextMix]_vars

\* ------------------------------------------------------------ properties

StopTimesRequired ==
  {"trip_id", "arrival_time", "departure_time", "stop_id", "stop_sequence"}

\* The archive served holds a stop_times.txt whose header lacks a required
\* column.
LacksColumn ==
  /\ Files \subseteq archive.members
  /\ ~(StopTimesRequired \subseteq Member(archive, STOP_TIMES_FILE).hdr)

\* C1: a refresh over an archive whose stop_times.txt lacks a required
\* column returns failure.
C1_MissingColumnFailsRefresh ==
  \A t \in Tasks : rf[t].pc = "done" /\ LacksColumn => ~rf[t].success

\* No archive reaches the loads: the download failed or a required member
\* is missing.
NoArchive == "download" \in failed \/ ~(Files \subseteq archive.members)

\* C2: when the download fails or one of the seven required members is
\* missing, the refresh deletes from and writes to no data collection (the
\* store stays as it was when the refresh began, no loader is started) and
\* it returns failure.
C2_NoArchiveNoWrite ==
  \A t \in Tasks :
    rf[t].pc # "idle" /\ NoArchive =>
      /\ touched = {}
      /\ store = prev.data
      /\ ld[t].pc = "idle"
      /\ rf[t].order = <<>>
      /\ rf[t].pc = "done" => ~rf[t].success

C2_Witness ==
  \E t \in Tasks :
    /\ rf[t].pc = "done"
    /\ ~rf[t].success
    /\ ~(Files \subseteq archive.members)
    /\ store # EmptyStore

\* What a refresh does when every step succeeds, in order.
FullOrder ==
  <<<<"begin", "calendar">>, <<"end", "calendar">>,
    <<"begin", "calendar_dates">>, <<"end", "calendar_dates">>,
    <<"begin", "stops">>, <<"end", "stops">>,
    <<"begin", "shapes">>, <<"end", "shapes">>,
    <<"begin", "trips">>, <<"end", "trips">>,
    <<"begin", "routes">>, <<"end", "routes">>,
    <<"begin", "stop_times">>, <<"end", "stop_times">>,
    <<"meta", "metadata">>>>

IsPrefix(p, q) == Len(p) <= Len(q) /\ p = SubSeq(q, 1, Len(p))

\* C3: the loads of a refresh run one after another in the order calendar,
\* calendar_dates, stops, shapes, trips, routes, stop_times, each begun
\* only when the one before has ended; last_successful_update_utc is
\* written only after the stop_times load has ended, by a refresh that
\* then returns success having done all of it; a refresh that fails leaves
\* last_successful_update_utc as it found it.
C3_LoadOrder ==
  \A t \in Tasks :
    /\ IsPrefix(rf[t].order, FullOrder)
    /\ rf[t].pc # "idle" /\ meta.ok # rf[t].ok0 => rf[t].order = FullOrder
    /\ rf[t].pc = "done" /\ rf[t].success => rf[t].order = FullOrder
    /\ rf[t].pc = "done" /\ ~rf[t].success => meta.ok = rf[t].ok0

C3_Witness ==
  \E t \in Tasks :
    /\ rf[t].pc = "done"
    /\ rf[t].success
    /\ meta.ok = clock
    /\ rf[t].ok0 # clock

\* C4: update_gtfs_data_in_db raises nothing to its caller; when it returns
\* False it has attempted to set last_error_utc and last_error_message on
\* the metadata record and last_successful_update_utc is as it found it.
C4_FailureRecorded ==
  \A t \in Tasks :
    /\ rf[t].pc # "raised"
    /\ rf[t].pc = "done" /\ ~rf[t].success =>
         rf[t].attempted /\ meta.ok = rf[t].ok0

\* C5: at most one refresh is in progress at any time, a refresh is in
\* progress only inside the scheduler task's call of it, and at most one
\* scheduler task is ever created.
C5_SingleRefresh ==
  /\ Cardinality({t \in Tasks : rf[t].pc # "idle"}) <= 1
  /\ Cardinality({t \in Tasks : ld[t].pc # "idle"}) <= 1
  /\ Cardinality({t \in Tasks : tasks[t] # "none"}) <= 1
  /\ \A t \in Tasks : rf[t].pc # "idle" => tasks[t] = "inrefresh"
  /\ \A t \in Tasks : ld[t].pc # "idle" => rf[t].pc = "load"

C5_Witness ==
  \E t \in Tasks : clock = 2 /\ rf[t].pc = "load" /\ ld[t].pc = "write"

\* C6: a read made while the loader replaces a collection, after the
\* delete-all and before the last batch, gets neither the old contents nor
\* the new ones: it gets exactly the batches written until then, which may
\* be none.
C6_ReadSeesBatchesSoFar ==
  /\ ld[1].clear
  /\ observed.pc \in {"fetch", "write", "flush"}
  /\ observed.nfailed = 0
  => observed.docs = Written(observed.sofar)

\* A read in the window got part of the new records: not the old contents,
\* not nothing, and not what the load left in the end.
C6_Witness ==
  /\ ld[1].pc = "ret"
  /\ ld[1].clear
  /\ faults = 0
  /\ ld[1].old # <<>>
  /\ observed.pc = "flush"
  /\ observed.docs # <<>>
  /\ observed.docs # ld[1].old
  /\ observed.docs # store[ld[1].coll]
  /\ Len(observed.docs) < Len(store[ld[1].coll])

\* The natural ids the records of a stream carry.
NaturalIds(recs) == {recs[k]._id : k \in {j \in 1..Len(recs) : HasId(recs[j])}}

\* The last record of the stream that carries natural id id.
LastWith(recs, id) ==
  recs[CHOOSE k \in 1..Len(recs) :
         /\ HasId(recs[k]) /\ recs[k]._id = id
         /\ \A j \in (k + 1)..Len(recs) : ~(HasId(recs[j]) /\ recs[j]._id = id)]

Keyed(doc) == HasId(doc)

Unkeyed(doc) == ~HasId(doc)

\* docs holds exactly the records recs: one document per natural id (the
\* last record carrying it) and one store-keyed document per record
\* without an id.
HoldsExactly(docs, recs) ==
  /\ {docs[j] : j \in {i \in 1..Len(docs) : HasId(docs[i])}}
       = {LastWith(recs, id) : id \in NaturalIds(recs)}
  /\ Len(SelectSeq(docs, Keyed)) = Cardinality(NaturalIds(recs))
  /\ SelectSeq(docs, Unkeyed) = SelectSeq(recs, Unkeyed)

\* C7: when update_mongo_collection has run with clearing and no bulk
\* write failed, the collection holds none of its previous documents and
\* exactly the records of the stream.
C7_ExactReplace ==
  ld[1].pc = "ret" /\ ld[1].clear /\ ld[1].nfailed = 0 =>
    /\ \A j \in 1..Len(store[ld[1].coll]) :
         \A k \in 1..Len(ld[1].old) : store[ld[1].coll][j] # ld[1].old[k]
    /\ HoldsExactly(store[ld[1].coll], ld[1].recs)

\* The refresh met nothing but failed bulk writes and failed index builds.
OnlyBatchOrIndexFailed ==
  /\ failed \subseteq {"bulk", "index"}
  /\ Files \subseteq archive.members
  /\ Member(archive, ROUTES_FILE).ioerr = 0

\* C8: a failed bulk write costs its own batch only.  The loader raises
\* for a failed delete-all alone; when it returns, the index step has run,
\* every record the stream yielded before it ended has been handed to
\* bulk_write, and the records of every acknowledged batch that carry a
\* natural id are in the collection; a refresh that met nothing but failed
\* bulk writes and failed index builds returns success.
C8_BatchFailureContained ==
  \A t \in Tasks :
    /\ ld[t].pc = "raised" => "delete" \in failed
    /\ ld[t].pc = "ret" =>
         /\ ld[t].indexed # "no"
         /\ ~ld[t].raises =>
              ld[t].submitted = [k \in 1..Len(ld[t].recs) |->
                                   Operation(ld[t].recs[k]).doc]
         /\ \A k \in 1..Len(ld[t].acked) :
              HasId(ld[t].acked[k]) =>
                \E j \in 1..Len(store[ld[t].coll]) :
                  /\ HasId(store[ld[t].coll][j])
                  /\ store[ld[t].coll][j]._id = ld[t].acked[k]._id
    /\ rf[t].pc = "done" /\ OnlyBatchOrIndexFailed => rf[t].success

\* The first batch of a stream failed, the remainder was written, the index
\* step ran and the loader returned.
C8_Witness ==
  \E t \in Tasks :
    /\ ld[t].pc = "ret"
    /\ ld[t].nfailed = 1
    /\ Len(ld[t].submitted) > batch_size
    /\ ld[t].acked # <<>>
    /\ ld[t].acked = SubSeq(ld[t].submitted, batch_size + 1,
                            Len(ld[t].submitted))
    /\ ld[t].indexed = "ok"

\* C9: a refresh that returns with no failure, begun after a refresh of the
\* same archive that returned with no failure, leaves every data collection
\* with the documents (and so the counts) it had; when it succeeds the
\* metadata record differs in last_successful_update_utc only.
C9_RefreshIdempotent ==
  \A t \in Tasks :
    rf[t].pc = "done" /\ failed = {} /\ prev.valid =>
      /\ store = prev.data
      /\ rf[t].success =>
           /\ meta.ok # prev.meta.ok
           /\ [meta EXCEPT !.ok = 0] = [prev.meta EXCEPT !.ok = 0]

C9_Witness ==
  \E t \in Tasks :
    /\ rf[t].pc = "done"
    /\ rf[t].success
    /\ failed = {}
    /\ prev.valid
    /\ clock = 2
    /\ Len(store["stop_times"]) > batch_size

\* The key a document is told by: its natural id, or all of it.
KeyOf(doc) == IF "_id" \in DOMAIN doc THEN doc._id ELSE doc

\* What the decoder makes of line i when it is the only line of the table.
Alone(c, a, i) ==
  Decoded(c, [a EXCEPT !.tables[FileOf(c)].rows = <<@[i]>>]).recs

\* C10: no line makes a decoder raise, and whatever a line yields on its
\* own is yielded from the whole table too: a malformed line is skipped and
\* the lines after it are still decoded.
C10_RowsIndependent ==
  parsed.done =>
    /\ ~parsed.out.raises
    /\ \A i \in 1..Len(parsed.tbl.rows) :
         \A k \in 1..Len(Alone(parsed.kind, archive, i)) :
           \E j \in 1..Len(parsed.out.recs) :
             KeyOf(parsed.out.recs[j])
               = KeyOf(Alone(parsed.kind, archive, i)[k])

\* The valid lines of the calendar.txt the store was loaded from.
CalendarLines ==
  LET tbl == Member(archive, CALENDAR_FILE)
  IN {tbl.rows[k] : k \in 1..Len(tbl.rows)}

\* The line's service runs on day by the weekly calendar: the flag of the
\* day's weekday is 1 and the day lies in start_date..end_date, ends
\* included.
RunsOn(line, day) ==
  /\ line[Weekdays[Weekday(day) + 1]] = <<"1">>
  /\ parse_gtfs_date(line.start_date).val <= day
  /\ day <= parse_gtfs_date(line.end_date).val

CalendarActive(day) ==
  {line.service_id : line \in {l \in CalendarLines : RunsOn(l, day)}}

\* The exceptions stored for day.
ExceptionsOn(day) ==
  {k \in 1..Len(store["calendar_dates"]) :
     store["calendar_dates"][k].date = DayStart(day)}

\* C11: with no exception stored for date D, get_active_service_ids(D)
\* returns exactly the services whose flag for D's weekday is set and whose
\* start_date <= D <= end_date, both ends included, by the day.
C11_CalendarWindow ==
  (/\ query.handler = "get_active_service_ids"
   /\ query.status = 200
   /\ ExceptionsOn(query.target_date) = {})
  => query.active_services = CalendarActive(query.target_date)

\* A service is returned for its end_date, nothing else deciding.
C11_Witness ==
  /\ query.handler = "get_active_service_ids"
  /\ query.status = 200
  /\ ExceptionsOn(query.target_date) = {}
  /\ query.target_date = JanDay(8)
  /\ <<"a">> \in query.active_services

\* The types of the exceptions that the calendar_dates.txt the store was
\* loaded from holds for service sid on day.
TypesOn(sid, day) ==
  LET tbl == Member(archive, CALENDAR_DATES_FILE)
  IN {PyInt(tbl.rows[k].exception_type).val :
        k \in {j \in 1..Len(tbl.rows) :
                 /\ tbl.rows[j].service_id = sid
                 /\ parse_gtfs_date(tbl.rows[j].date).val = day}}

\* The services the feed names.
Services ==
  LET cal == Member(archive, CALENDAR_FILE)
      exc == Member(archive, CALENDAR_DATES_FILE)
  IN {cal.rows[k].service_id : k \in 1..Len(cal.rows)}
     \cup {exc.rows[k].service_id : k \in 1..Len(exc.rows)}

\* C12: for a date D, a service whose exceptions dated D are of type 1 is
\* active on D whatever the weekly calendar says, a service whose
\* exceptions dated D are of type 2 is inactive on D (also when it was not
\* active to begin with), and a service with no exception dated D is active
\* on D exactly when the weekly calendar makes it so: exceptions dated
\* another day change nothing.  Nothing else is returned.
C12_ExceptionsOverride ==
  (query.handler = "get_active_service_ids" /\ query.status = 200) =>
    /\ query.active_services \subseteq Services
    /\ \A sid \in Services :
         LET types == TypesOn(sid, query.target_date)
         IN /\ types = {1} => sid \in query.active_services
            /\ types = {2} => sid \notin query.active_services
            /\ types = {} =>
                 (sid \in query.active_services
                    <=> sid \in CalendarActive(query.target_date))

\* On Wednesday 3 January the weekend service is returned by a type-1
\* exception alone, while an exception dated 6 January is stored too.
C12_Witness ==
  /\ query.handler = "get_active_service_ids"
  /\ query.status = 200
  /\ query.target_date = JanDay(3)
  /\ TypesOn(<<"b">>, JanDay(3)) = {1}
  /\ <<"b">> \notin CalendarActive(JanDay(3))
  /\ <<"b">> \in query.active_services
  /\ \E sid \in Services : TypesOn(sid, JanDay(6)) # {}

\* The stop_times stored for the stop at or after the cutoff.
Candidates(stop_id, cutoff) ==
  {k \in 1..Len(store["stop_times"]) :
     /\ store["stop_times"][k].stop_id = stop_id
     /\ store["stop_times"][k].departure_time >= cutoff}

\* The stored trip of a stop_time runs on a service active on day, the
\* calendar alone deciding (the served feed holds no exceptions).
TripActive(k, day) ==
  \E j \in 1..Len(store["trips"]) :
    /\ store["trips"][j]._id = store["stop_times"][k].trip_id
    /\ store["trips"][j].service_id \in CalendarActive(day)

\* The stop_times that qualify for a request.
Qualifying(stop_id, cutoff, day) ==
  {k \in Candidates(stop_id, cutoff) : TripActive(k, day)}

\* Those whose trip is on the route as well.
QualifyingOn(stop_id, route_id, cutoff, day) ==
  {k \in Qualifying(stop_id, cutoff, day) :
     \E j \in 1..Len(store["trips"]) :
       /\ store["trips"][j]._id = store["stop_times"][k].trip_id
       /\ store["trips"][j].route_id = route_id}

\* The departure times of the stop_times at the positions in I, ascending,
\* as the response words them.
RECURSIVE Ascending(_)
Ascending(I) ==
  IF I = {} THEN <<>>
  ELSE LET k == CHOOSE i \in I :
                  \A j \in I : store["stop_times"][i].departure_time
                                 <= store["stop_times"][j].departure_time
       IN <<format_seconds_to_gtfs_time(store["stop_times"][k].departure_time)>>
          \o Ascending(I \ {k})

TimesOf(body) == [i \in 1..Len(body) |-> body[i].departure_time]

\* The list query answered a well-formed request.
Listed200 ==
  query.handler = "get_next_departures_endpoint" /\ query.status = 200

\* C13: the list query returns the min(limit, k) earliest qualifying
\* departures in ascending order of departure time, k being the number of
\* stop_times of the stop at or after the cutoff whose trip is stored and
\* runs on an active service, whatever the store holds.
C13_EarliestQualifying ==
  Listed200 =>
    LET all == Ascending(Qualifying(query.stop_id, query.cutoff,
                                    query.target_date))
    IN TimesOf(query.body) = Limit(all, query.limit)

\* C14: every departure the list query returns is a stop_time of the stop
\* at or after the cutoff whose trip is stored and runs on an active
\* service (no stop_time is returned more often than it is stored); the
\* list is in non-decreasing order of departure time and no longer than
\* limit.
C14_OnlyQualifying ==
  Listed200 =>
    LET times == TimesOf(query.body)
        all == Ascending(Qualifying(query.stop_id, query.cutoff,
                                    query.target_date))
    IN /\ Len(times) <= query.limit
       /\ \A i \in 1..Len(times) :
            Cardinality({j \in 1..Len(times) : times[j] = times[i]})
              <= Cardinality({j \in 1..Len(all) : all[j] = times[i]})
       /\ \A i \in 1..(Len(times) - 1) :
            gtfs_time_to_seconds(times[i]).val
              <= gtfs_time_to_seconds(times[i + 1]).val

\* Departures are returned while the stop has a later stop_time that does
\* not qualify.
C14_Witness ==
  /\ Listed200
  /\ query.body # <<>>
  /\ Candidates(query.stop_id, query.cutoff)
       # Qualifying(query.stop_id, query.cutoff, query.target_date)

\* The single-departure query answered a well-formed request without a
\* store failure.
Single ==
  query.handler = "get_next_departure_for_route" /\ query.status \in {200, 404}

Resolvable ==
  /\ query.handler \in {"get_next_departures_endpoint",
                        "get_next_departure_for_route"}
  /\ query.status # 400
  /\ query.fail \notin {"calendar", "calendar_dates"}

LookedIn ==
  IF query.handler = "get_stop_by_id_endpoint" THEN store["stops"]
  ELSE store["routes"]

\* C17: a lookup of a stop or a route by an id the store does not hold is
\* answered 404, and 500 is the answer when the store read fails.
C17_NotFoundIs404 ==
  query.handler \in {"get_stop_by_id_endpoint", "get_route_by_id_endpoint"} =>
    /\ query.fail = "find_one" => query.status = 500
    /\ (/\ query.fail = "none"
        /\ \A k \in 1..Len(LookedIn) : LookedIn[k]._id # query.id)
       => query.status = 404

\* The lines of the decoded shapes.txt that are points of shape id with
\* all of shape_id, latitude, longitude and sequence number.
PointsOf(id) ==
  {i \in 1..Len(parsed.tbl.rows) :
     LET row == parsed.tbl.rows[i]
     IN /\ Truthy(row.shape_id) /\ row.shape_id = id
        /\ PyFloat(row.shape_pt_lat).ok /\ PyFloat(row.shape_pt_lon).ok
        /\ PyInt(row.shape_pt_sequence).ok}

\* coordinates lists the points at the lines in I, each once, in
\* non-decreasing order of their sequence numbers.
InSequence(coordinates, I) ==
  /\ Len(coordinates) = Cardinality(I)
  /\ \E f \in [1..Len(coordinates) -> I] :
       /\ \A j, k \in 1..Len(coordinates) : j # k => f[j] # f[k]
       /\ \A k \in 1..Len(coordinates) :
            coordinates[k] = <<PyFloat(parsed.tbl.rows[f[k]].shape_pt_lat).val,
                               PyFloat(parsed.tbl.rows[f[k]].shape_pt_lon).val>>
       /\ \A k \in 1..(Len(coordinates) - 1) :
            PyInt(parsed.tbl.rows[f[k]].shape_pt_sequence).val
              <= PyInt(parsed.tbl.rows[f[k + 1]].shape_pt_sequence).val

\* C18: every Shape emitted holds exactly the points of one shape_id that
\* have all of shape_id, latitude, longitude and sequence number, in
\* non-decreasing order of sequence number; no two Shapes share a
\* shape_id, none is without points, and every shape_id with such a point
\* is emitted.
C18_ShapesGrouped ==
  (parsed.done /\ parsed.kind = "shapes") =>
    LET recs == parsed.out.recs
    IN /\ \A k \in 1..Len(recs) :
            /\ recs[k].coordinates # <<>>
            /\ InSequence(recs[k].coordinates, PointsOf(recs[k].shape_id))
       /\ \A j, k \in 1..Len(recs) :
            j # k => recs[j].shape_id # recs[k].shape_id
       /\ \A i \in 1..Len(parsed.tbl.rows) :
            PointsOf(parsed.tbl.rows[i].shape_id) # {} =>
              \E k \in 1..Len(recs) :
                recs[k].shape_id = parsed.tbl.rows[i].shape_id

\* The lines of the decoded trips.txt.
TripLines == {parsed.tbl.rows[i] : i \in 1..Len(parsed.tbl.rows)}

\* The line names a trip: trip_id, route_id and service_id are there.
NamesTrip(row) ==
  Truthy(row.trip_id) /\ Truthy(row.route_id) /\ Truthy(row.service_id)

\* The linker ran over a trips.txt.
LinkedTrips == parsed.done /\ parsed.kind = "trips"

\* C19 as stated: for every route the linker emits, shape_ids is the
\* duplicate-free ascending list of the non-empty shape_id values of the
\* lines of trips.txt whose route_id is the route's id.
C19_ShapeIdsOfTripRows ==
  LinkedTrips =>
    \A k \in 1..Len(parsed.linked.routes) :
      parsed.linked.routes[k].shape_ids
        = SortedStrs({row.shape_id :
                        row \in {r \in TripLines :
                                   /\ r.route_id
                                        = parsed.linked.routes[k].route_id
                                   /\ Truthy(r.shape_id)}})

\* C19 amended: for every route the linker emits, shape_ids is the
\* duplicate-free ascending list of the non-empty shape_id values of the
\* lines of trips.txt that name a trip (non-empty trip_id, route_id and
\* service_id) and whose route_id is the route's id; a trip whose route_id
\* is not in routes.txt adds its shape_id to no route.
C19_ShapeIdsOfTrips ==
  LinkedTrips =>
    \A k \in 1..Len(parsed.linked.routes) :
      parsed.linked.routes[k].shape_ids
        = SortedStrs({row.shape_id :
                        row \in {r \in TripLines :
                                   /\ NamesTrip(r)
                                   /\ r.route_id
                                        = parsed.linked.routes[k].route_id
                                   /\ Truthy(r.shape_id)}})

\* Route a is emitted with two shapes in ascending order, linked from
\* trips that name shape b before shape a, while trips.txt also holds a
\* trip with a shape on a route that routes.txt lacks.
C19_Witness ==
  /\ LinkedTrips
  /\ \E k \in 1..Len(parsed.linked.routes) :
       parsed.linked.routes[k].shape_ids = <<<<"a">>, <<"b">>>>
  /\ parsed.tbl.rows[1].shape_id = <<"b">>
  /\ \E r \in TripLines : r.route_id = <<"z">> /\ Truthy(r.shape_id)

\* The columns stream_parse_trips_and_routes reads with row[...].
TripsRequired == {"trip_id", "route_id", "service_id"}

\* The archive served holds a trips.txt whose header lacks a required
\* column.
TripsLacksColumn ==
  /\ Files \subseteq archive.members
  /\ ~(TripsRequired \subseteq Member(archive, TRIPS_FILE).hdr)

\* The route ids of the lines of routes.txt.
RouteIdsOf(tbl) ==
  {tbl.rows[i].route_id :
     i \in {j \in 1..Len(tbl.rows) : Truthy(tbl.rows[j].route_id)}}

\* Refresh t has done step e.
InOrder(t, e) == \E i \in 1..Len(rf[t].order) : rf[t].order[i] = e

\* C20: when the header of trips.txt lacks a required column, the linker
\* raises nothing (the trips load begins as soon as the shapes load has
\* ended), it emits every route of routes.txt, each once and with an empty
\* shape_ids list, and it emits no trips; the refresh goes on with the
\* remaining tables: unless something else fails it does every step,
\* returns success, and leaves trips empty and stop_times loaded.
C20_MalformedTripsHeader ==
  \A t \in Tasks :
    TripsLacksColumn =>
      /\ InOrder(t, <<"end", "shapes">>) => InOrder(t, <<"begin", "trips">>)
      /\ InOrder(t, <<"begin", "trips">>) =>
           /\ rf[t].linked.trips = <<>>
           /\ {rf[t].linked.routes[k].route_id :
                 k \in 1..Len(rf[t].linked.routes)}
                = RouteIdsOf(Member(archive, ROUTES_FILE))
           /\ Len(rf[t].linked.routes)
                = Cardinality(RouteIdsOf(Member(archive, ROUTES_FILE)))
           /\ \A k \in 1..Len(rf[t].linked.routes) :
                rf[t].linked.routes[k].shape_ids = <<>>
      /\ rf[t].pc = "done" /\ OnlyBatchOrIndexFailed =>
           rf[t].success /\ rf[t].order = FullOrder
      /\ rf[t].pc = "done" /\ failed = {} =>
           /\ store["trips"] = <<>>
           /\ store["routes"] = Written(rf[t].linked.routes)
           /\ store["stop_times"] = Loaded(archive)["stop_times"]

\* A refresh over an archive whose trips.txt has no service_id column has
\* returned success: a route is stored without shapes, no trip is stored,
\* and the stop times, loaded after the trips, are there.
C20_Witness ==
  \E t \in Tasks :
    /\ TripsLacksColumn
    /\ rf[t].pc = "done"
    /\ rf[t].success
    /\ store["trips"] = <<>>
    /\ Len(store["routes"]) = 1
    /\ store["routes"][1].shape_ids = <<>>
    /\ store["stop_times"] # <<>>

\* The application has shut down.
Stopped == lifespan = "stopped"

\* C21: once the background task has been cancelled, at whichever point,
\* it has ended (no refresh is in progress and none starts) and
\* update_task_running is False.
C21_CancelClearsRunning ==
  Stopped =>
    /\ ~app_state.update_task_running
    /\ \A t \in Tasks : tasks[t] \in {"none", "cancelled"}

\* C22: the wait planned after a refresh attempt that failed is shorter
\* than the normal refresh interval, whether or not a refresh has ever
\* succeeded.
C22_ShorterBackoffAfterFailure ==
  \A t \in Tasks :
    tasks[t] = "wait" /\ sched.runs > 0 /\ ~sched.success =>
      sched.wait_time < UPDATE_INTERVAL_SECONDS

\* C24: update_task_running, which /status reports as update_in_progress,
\* is true exactly while a refresh is executing.
C24_InProgressIffRefreshing ==
  app_state.update_task_running <=> \E t \in Tasks : tasks[t] = "inrefresh"

\* C25: a refresh starts after a sleep of at least 10 seconds, and when
\* the plan read a last successful refresh T, not before T +
\* UPDATE_INTERVAL_SECONDS.
C25_WaitBeforeRefresh ==
  \A t \in Tasks :
    tasks[t] = "inrefresh" =>
      /\ clock = sched.started
      /\ sched.started - sched.planned >= 10
      /\ sched.last_update_ts # 0 =>
           sched.started >= sched.last_update_ts + UPDATE_INTERVAL_SECONDS

\* A second refresh starts exactly one interval after the first one
\* returned success, after a sleep of more than 10 seconds.
C25_Witness ==
  \E t \in Tasks :
    /\ tasks[t] = "inrefresh"
    /\ sched.runs = 2
    /\ sched.last_update_ts = sched.returned
    /\ sched.started = sched.last_update_ts + UPDATE_INTERVAL_SECONDS
    /\ sched.started - sched.planned > 10

\* "25:30:15"
T253015 == <<"2", "5", ":", "3", "0", ":", "1", "5">>

\* C23: a number of seconds n >= 0, formatted and parsed back, is n again;
\* the text is hours:minutes:seconds with n \div 3600 as its hours,
\* neither clamped nor reduced modulo 24; 91815 formats to "25:30:15" and
\* "25:30:15" parses to 91815.
C23_TimeRoundTrip ==
  query.handler = "gtfs_time_to_seconds" =>
    /\ query.seconds = Val(query.total_seconds)
    /\ LET parts == SplitColon(query.time_str)
       IN /\ Len(parts) = 3
          /\ parts[1] = Pad2(query.total_seconds \div 3600)
          /\ \A k \in 1..3 : Len(parts[k]) >= 2 /\ IsDigitStr(parts[k])
          /\ DigitsVal(parts[1]) = query.total_seconds \div 3600
    /\ query.total_seconds = 91815 => query.time_str = T253015
    /\ query.time_str = T253015 => query.total_seconds = 91815
    /\ gtfs_time_to_seconds(T253015) = Val(91815)

\* 91815 seconds went through both functions as "25:30:15".
C23_Witness ==
  /\ query.handler = "gtfs_time_to_seconds"
  /\ query.total_seconds = 91815
  /\ query.time_str = T253015
  /\ query.seconds = Val(91815)

\* The collections a refresh loads after the load at step k.
LaterThan(k) == {LoadOrder[j] : j \in (k + 1)..Len(LoadOrder)}

\* C26: when the delete-all of a load fails, no record of the stream is
\* handed to the store for that collection (it keeps its old documents or
\* has lost them all) and its index step does not run; the load never
\* ends and no later load begins, so every later collection is as the
\* last refresh left it; the refresh returns failure and leaves
\* last_successful_update_utc as it found it.
C26_DeleteFailureAborts ==
  \A t \in Tasks :
    rf[t].pc # "idle" /\ "delete" \in failed =>
      /\ rf[t].order # <<>>
      /\ rf[t].order[Len(rf[t].order)] = <<"begin", LoadOrder[rf[t].step]>>
      /\ store[LoadOrder[rf[t].step]]
           \in {<<>>, prev.data[LoadOrder[rf[t].step]]}
      /\ ld[t].pc # "idle" =>
           /\ ld[t].pc = "raised"
           /\ ld[t].coll = LoadOrder[rf[t].step]
           /\ ld[t].submitted = <<>>
           /\ ld[t].indexed = "no"
      /\ touched \cap LaterThan(rf[t].step) = {}
      /\ \A c \in LaterThan(rf[t].step) : store[c] = prev.data[c]
      /\ rf[t].pc \in {"load", "except", "done"}
      /\ rf[t].pc = "done" => ~rf[t].success /\ meta.ok = rf[t].ok0

\* A refresh has returned failure after the delete-all of stops failed:
\* the calendar was replaced before, the stops are as they were, and the
\* stop times were not touched.
C26_Witness ==
  \E t \in Tasks :
    /\ rf[t].pc = "done"
    /\ "delete" \in failed
    /\ LoadOrder[rf[t].step] = "stops"
    /\ store["calendar"] # prev.data["calendar"]
    /\ store["stops"] = prev.data["stops"]
    /\ store["stops"] # <<>>
    /\ store["stop_times"] = prev.data["stop_times"]
    /\ store["stop_times"] # <<>>

\* A departure query answered with departures.
Departing ==
  /\ query.handler \in {"get_next_departures_endpoint",
                        "get_next_departure_for_route"}
  /\ query.status = 200

\* The route that the trips of the served feed name and its routes.txt
\* lacks.
RouteZ ==
  [_id |-> <<"z">>, route_id |-> <<"z">>, route_short_name |-> <<"z">>,
   shape_ids |-> <<>>]

\* The store with one more route.
WithRoute(db, doc) == [db EXCEPT !["routes"] = Append(@, doc)]

\* What the handler that served the request answers to it over db.
Again(db) ==
  IF query.handler = "get_next_departures_endpoint"
    THEN get_next_departures_endpoint(db, query.stop_id, query.limit,
                                      Val(query.cutoff),
                                      Val(query.target_date), query.fail)
    ELSE get_next_departure_for_route(db, query.stop_id, query.route_id,
                                      Val(query.cutoff),
                                      Val(query.target_date), query.fail)

\* A departure without its route-derived fields.
Routeless(info) ==
  [info EXCEPT !.route_short_name = None, !.route_long_name = None,
               !.route_color = None]

\* body is full, entry by entry, but for the route-derived fields of the
\* departures of route z, which are absent.
SameButRouteZ(body, full) ==
  /\ full.status = 200
  /\ Len(body) = Len(full.body)
  /\ \A k \in 1..Len(body) :
       body[k] = IF full.body[k].route_short_name = RouteZ.route_short_name
                   THEN Routeless(full.body[k])
                   ELSE full.body[k]

\* C27: both departure queries answer as they would if the route that the
\* routes collection lacks were stored: the same departures at the same
\* positions, those of the missing route without short name, long name
\* and color.
C27_RouteLeftJoin ==
  Departing => SameButRouteZ(query.body, Again(WithRoute(store, RouteZ)))

\* The list query returned a departure of a stored route and, after it, a
\* departure of the route that is not stored, without its route fields.
C27_Witness ==
  /\ query.handler = "get_next_departures_endpoint"
  /\ query.status = 200
  /\ Len(query.body) = 2
  /\ query.body[1].route_short_name # None
  /\ query.body[2].route_short_name = None
  /\ query.body[2].departure_time # query.body[1].departure_time

\* The orders in which the find may return the documents docs.
Orders(docs) ==
  {[k \in 1..Len(docs) |-> docs[p[k]]] :
     p \in {q \in [1..Len(docs) -> 1..Len(docs)] :
              \A i, j \in 1..Len(docs) : q[i] = q[j] => i = j}}

\* get_active_service_ids answered.
ResolvedOk == query.handler = "get_active_service_ids" /\ query.status = 200

\* C28: get_active_service_ids returns the same set in whichever order
\* the store returns the calendar_dates documents, also when a service has
\* a type-1 and a type-2 exception on the date asked for.
C28_OrderIndependent ==
  ResolvedOk =>
    \A dates \in Orders(store["calendar_dates"]) :
      get_active_service_ids([store EXCEPT !["calendar_dates"] = dates],
                             query.target_date, query.fail)
        = Val(query.active_services)

\* The stored exceptions of service sid for day, by position.
StoredFor(sid, day) ==
  {k \in ExceptionsOn(day) : store["calendar_dates"][k].service_id = sid}

\* Service sid has an exception of either type stored for day.
BothTypes(sid, day) ==
  {store["calendar_dates"][k].exception_type : k \in StoredFor(sid, day)}
    = {1, 2}

\* The services the stored exceptions name.
Excepted ==
  {store["calendar_dates"][k].service_id :
     k \in 1..Len(store["calendar_dates"])}

\* r is an answer that has the services of active, but for those with an
\* exception of either type stored for day.
AgreesButBoth(r, active, day) ==
  /\ r.ok
  /\ \A sid \in (r.val \cup active) :
       ~BothTypes(sid, day) => (sid \in r.val <=> sid \in active)

\* C28 amended: get_active_service_ids returns the same services in
\* whichever order the store returns the calendar_dates documents, except
\* for a service that has both a type-1 and a type-2 exception on the date
\* asked for: such a service is returned exactly when the last of its
\* exceptions that the store returns is of type 1.
C28_OrderIndependentButBoth ==
  ResolvedOk =>
    /\ \A dates \in Orders(store["calendar_dates"]) :
         AgreesButBoth(
           get_active_service_ids([store EXCEPT !["calendar_dates"] = dates],
                                  query.target_date, query.fail),
           query.active_services, query.target_date)
    /\ \A sid \in Excepted :
         BothTypes(sid, query.target_date) =>
           (sid \in query.active_services
              <=> \E k \in StoredFor(sid, query.target_date) :
                    /\ store["calendar_dates"][k].exception_type = 1
                    /\ \A j \in StoredFor(sid, query.target_date) : j <= k)

\* Two exceptions are stored for the date asked for, one that adds a
\* service the calendar leaves out and one that removes a service the
\* calendar has, and the answer has the first and not the second.
C28_Witness ==
  /\ ResolvedOk
  /\ Cardinality(ExceptionsOn(query.target_date)) = 2
  /\ \E sid \in Excepted :
       /\ sid \in query.active_services
       /\ sid \notin CalendarActive(query.target_date)
  /\ \E sid \in Excepted :
       /\ sid \notin query.active_services
       /\ sid \in CalendarActive(query.target_date)

OnWhole(db) ==
  get_next_departures_endpoint(db, query.stop_id, query.limit,
                               Val(query.cutoff), Val(query.target_date),
                               "none").body

Elems(s) == {s[k] : k \in 1..Len(s)}

\* A departure query has returned its list.
Answered ==
  /\ query.handler = "get_next_departures_endpoint"
  /\ query.pc = "done"
  /\ query.status = 200

\* C30 as stated: every departure a query concurrent with a refresh
\* returns is one the same query returns on the whole pre-refresh data
\* set or on the whole post-refresh data set.
C30_OneFeedVersion ==
  Answered =>
    Elems(query.body) \subseteq
      Elems(OnWhole(Loaded(MixOld))) \cup Elems(OnWhole(Loaded(archive)))

\* The documents the loader is given for collection c of archive a.
Fed(a, c) ==
  LET recs == StreamFor(c, a,
                stream_parse_trips_and_routes(Member(a, ROUTES_FILE),
                                              Member(a, TRIPS_FILE)).val).recs
  IN {Operation(recs[k]).doc : k \in 1..Len(recs)}

\* The records of collection c before the refresh and in the feed being
\* loaded.
Either(c) == Elems(Loaded(MixOld)[c]) \cup Fed(archive, c)

\* A calendar record or a type-1 exception of either version makes the
\* service active on the day.
ActiveByEither(service_id, day) ==
  \/ \E doc \in Either("calendar") :
       /\ doc._id = service_id
       /\ calendar_filter(doc, Weekdays[Weekday(day) + 1], DayStart(day))
  \/ \E doc \in Either("calendar_dates") :
       /\ doc.service_id = service_id
       /\ doc.date = DayStart(day)
       /\ doc.exception_type = 1

\* The departure is made of a call at the stop, the trip of that call and
\* the route of that trip (or none), each of either version, the trip's
\* service being active on the day by a record of either version.
OfEither(d) ==
  \E st \in Either("stop_times"), trip \in Either("trips") :
    /\ st.stop_id = query.stop_id
    /\ st.departure_time >= query.cutoff
    /\ trip._id = st.trip_id
    /\ ActiveByEither(trip.service_id, query.target_date)
    /\ \E route \in {<<>>} \cup {<<r>> : r \in {x \in Either("routes") :
                                                  x._id = trip.route_id}} :
         d = DepartureInfo([st |-> st, tripInfoList |-> trip,
                            routeInfoList |-> route])

\* C30, amended: every departure a query concurrent with a refresh returns
\* is made of records of the pre-refresh data set and of the feed being
\* loaded, joined on their keys, though not all of one version.
C30_RecordsOfEitherVersion ==
  Answered => \A d \in Elems(query.body) : OfEither(d)

\* A query answered during a refresh in which no command failed returned
\* a departure that neither whole data set gives: the call of the old feed
\* with the route of the new one.
C30_Witness ==
  /\ Answered
  /\ query.mid
  /\ failed = {}
  /\ \E d \in Elems(query.body) :
       /\ d \notin Elems(OnWhole(Loaded(MixOld)))
                   \cup Elems(OnWhole(Loaded(archive)))
       /\ d.departure_time = format_seconds_to_gtfs_time(8 * 3600)
       /\ d.route_short_name = <<"9">>

====
